---- MODULE Spec2Model ----
(***************************************************************************)
(* Client-side monitoring layer of the tanstack-demo application: session  *)
(* tracker (utils/monitoring.ts), event filter, GlobalErrorHandler         *)
(* (services/errorHandler.ts), WebVitalsCollector (services/webVitals.ts), *)
(* MonitoringService (services/monitoring.ts) and the delivery functions.  *)
(*                                                                         *)
(* Every function of the source is an operator from a world record (the    *)
(* browser storages, the handler's queue, the network log, ...) to a       *)
(* result record [w, threw, ret]: the world it leaves, whether it threw,   *)
(* and what it returned.  An exception propagates exactly as in the source:*)
(* the callee's world so far is kept and the rest of the caller is skipped *)
(* unless the caller has a try/catch.                                      *)
(*                                                                         *)
(* Sentry and console calls are calls into external collaborators with no  *)
(* effect on the state modelled here; they are left out.                   *)
(***************************************************************************)
EXTENDS Integers, Sequences, FiniteSets, TLC

\* ------------------------------------------------------------------ bounds

\* Requests the application makes through httpClient in one behaviour.
MaxRequests == 2
\* Operations of the environment (calls, events, timer ticks) per behaviour
\* of the error pipeline.
MaxErrOps == 3
\* ... of the session tracker.
MaxSessOps == 3
\* ... of the network.
MaxNetOps == 3
\* ... of the rating function.
MaxRateOps == 2
\* ... of the dashboard.
MaxDashOps == 4
\* ... of the capture channels.
MaxChanOps == 4
\* ... of the HTTP client.
MaxHttpOps == 6
\* ... of a tab left idle.
MaxIdleOps == 4
\* ... of a page with several error handlers.
MaxInstOps == 4
\* ... of the auth store.
MaxAuthOps == 5
\* Identifiers generateId can hand out in one behaviour.
MaxIds == 2

\* ------------------------------------------------------------- variables

VARIABLES
    ss,          \* sessionStorage['monitoring_session_id'] ("" when absent)
    ssMode,      \* "ok" | "denied": whether sessionStorage accesses throw
    ls,          \* localStorage: key -> stored item
    lsMode,      \* "ok" | "full" (writes throw) | "denied" (all accesses throw)
    nextId,      \* index of the next identifier generateId returns
    clock,       \* Date.now(), in ms since the page was loaded
    config,      \* monitoringConfig
    errorQueue,  \* GlobalErrorHandler.errorQueue
    metrics,     \* WebVitalsCollector.metrics
    posts,       \* every fetch / sendBeacon the agent issued, in order
    inflight,    \* calls through the wrapped window.fetch not yet settled
    netErrors,   \* every NetworkError record recordNetworkError built
    events,      \* every CustomEvent record recordCustomEvent built
    installed,   \* listeners, wrappers and timers installed so far
    refs,        \* identity of the array objects errorQueue and metrics refer to
    snap,        \* the list a caller of getErrorQueue / getMetrics holds
    http,        \* the requests the application made through httpClient
    auth,        \* the state of useAuthStore and its pending timers
    reports,     \* history: errors passed to reportError that the filter kept
    accepted,    \* history: errors pushed onto errorQueue
    dirty,       \* history: a compaction, a clear or a listener capture happened
    seenSid,     \* history: the session id last returned to a caller in this tab
    last,        \* the operation of the last step and its outcome
    nOps,        \* operations so far
    maxOps       \* operations this behaviour is explored for

vars == <<ss, ssMode, ls, lsMode, nextId, clock, config, errorQueue, metrics,
          posts, inflight, netErrors, events, installed, refs, snap, http,
          auth, reports, accepted, dirty, seenSid, last, nOps, maxOps>>

\* ------------------------------------------------------------ the world

World ==
    [ss |-> ss, ssMode |-> ssMode, ls |-> ls, lsMode |-> lsMode,
     nextId |-> nextId, clock |-> clock, config |-> config,
     errorQueue |-> errorQueue, metrics |-> metrics, posts |-> posts,
     inflight |-> inflight, netErrors |-> netErrors, events |-> events,
     installed |-> installed, refs |-> refs, http |-> http, auth |-> auth,
     accepted |-> accepted]

Commit(w) ==
    /\ ss' = w.ss
    /\ ssMode' = w.ssMode
    /\ ls' = w.ls
    /\ lsMode' = w.lsMode
    /\ nextId' = w.nextId
    /\ clock' = w.clock
    /\ config' = w.config
    /\ errorQueue' = w.errorQueue
    /\ metrics' = w.metrics
    /\ posts' = w.posts
    /\ inflight' = w.inflight
    /\ netErrors' = w.netErrors
    /\ events' = w.events
    /\ installed' = w.installed
    /\ refs' = w.refs
    /\ http' = w.http
    /\ auth' = w.auth
    /\ accepted' = w.accepted

\* A normal return of value v, and a throw.
Ret(w, v) == [w |-> w, threw |-> FALSE, ret |-> v]
Throw(w) == [w |-> w, threw |-> TRUE, ret |-> <<>>]

\* --------------------------------------------------------------- storage

NoId == ""
IdPool == <<"s1", "s2", "s3", "s4">>
\* The session of a tab of an earlier visit, still in localStorage.
OldId == "s0"

\* Storage keys are token sequences: `session_${id}` is <<"session_", id>>.
SessionKey(id) == <<"session_", id>>
UserIdKey == <<"userId">>
Keys == {SessionKey(IdPool[i]) : i \in 1..Len(IdPool)}
            \cup {SessionKey(OldId), UserIdKey}

\* key.startsWith('session_')
startsWithSession(key) == key[1] = "session_"

\* A stored item is a string: absent (getItem gives null), the JSON text of an
\* object, or a text that is no JSON.  The JSON text of a session carries
\* its fields; the JSON text of any other object has no lastActivity.
Null == [kind |-> "null", shape |-> "none", sessionId |-> "", startTime |-> 0,
         lastActivity |-> 0, pageViews |-> 0, errors |-> 0]
NotJson == [kind |-> "text", shape |-> "none", sessionId |-> "", startTime |-> 0,
            lastActivity |-> 0, pageViews |-> 0, errors |-> 0]

\* JSON.stringify(session)
stringify(session) ==
    [kind |-> "json", shape |-> "session", sessionId |-> session.sessionId,
     startTime |-> session.startTime, lastActivity |-> session.lastActivity,
     pageViews |-> session.pageViews, errors |-> session.errors]

\* JSON.parse(text): throws on a text that is no JSON.
parseThrows(item) == item.kind # "json"
parse(item) ==
    [sessionId |-> item.sessionId, startTime |-> item.startTime,
     lastActivity |-> item.lastActivity, pageViews |-> item.pageViews,
     errors |-> item.errors]

\* sessionStorage.getItem('monitoring_session_id')
ssGetItem(w) == IF w.ssMode = "ok" THEN Ret(w, w.ss) ELSE Throw(w)
\* sessionStorage.setItem('monitoring_session_id', id)
ssSetItem(w, id) ==
    IF w.ssMode = "ok" THEN Ret([w EXCEPT !.ss = id], <<>>) ELSE Throw(w)

\* localStorage.getItem(key)
lsGetItem(w, key) == IF w.lsMode = "denied" THEN Throw(w) ELSE Ret(w, w.ls[key])
\* localStorage.setItem(key, item)
lsSetItem(w, key, item) ==
    IF w.lsMode = "ok" THEN Ret([w EXCEPT !.ls[key] = item], <<>>) ELSE Throw(w)
\* localStorage.removeItem(key)
lsRemoveItem(w, key) ==
    IF w.lsMode = "denied" THEN Throw(w)
    ELSE Ret([w EXCEPT !.ls[key] = Null], <<>>)

\* Sequencing of calls.  Bind(r, k): the call r, and when it returned, the rest
\* k of the caller; a throw of r skips the rest.  Catch(r, h): try r, catch
\* with h.  Returning(r, v): the call r, then `return v`.
Bind(r, k(_)) == IF r.threw THEN r ELSE k(r)
Catch(r, h(_)) == IF r.threw THEN h(r) ELSE r
Returning(r, v) == IF r.threw THEN r ELSE Ret(r.w, v)

\* ------------------------------------------------------- session tracker

\* generateId(): a fresh identifier on every call.
generateId(w) == Ret([w EXCEPT !.nextId = @ + 1], IdPool[w.nextId])

\* A getter that never reads the stored id.
getSessionIdFresh(w) ==
    Bind(generateId(w), LAMBDA gen :
        Returning(ssSetItem(gen.w, gen.ret), gen.ret))

getSessionId(w) ==
    Bind(ssGetItem(w), LAMBDA got :
        IF got.ret = NoId
        THEN Bind(generateId(w), LAMBDA gen :
                 Returning(ssSetItem(gen.w, gen.ret), gen.ret))
        ELSE Ret(w, got.ret))

\* A touch that moves the start of the session instead of its last activity.
touchStart(session, now) == [session EXCEPT !.startTime = now]

\* session.lastActivity = Date.now()
touch(session, now) == [session EXCEPT !.lastActivity = now]

newSession(sessionId, now) ==
    [sessionId |-> sessionId, startTime |-> now, lastActivity |-> now,
     pageViews |-> 1, errors |-> 0]

getUserSession(w) ==
    Bind(getSessionId(w), LAMBDA sid :
        Bind(lsGetItem(sid.w, SessionKey(sid.ret)), LAMBDA stored :
            IF stored.ret.kind # "null"
            THEN IF parseThrows(stored.ret) THEN Throw(stored.w)
                 ELSE Returning(
                          lsSetItem(stored.w, SessionKey(sid.ret),
                                    stringify(touch(parse(stored.ret), w.clock))),
                          touch(parse(stored.ret), w.clock))
            ELSE Returning(
                     lsSetItem(stored.w, SessionKey(sid.ret),
                               stringify(newSession(sid.ret, w.clock))),
                     newSession(sid.ret, w.clock))))

\* An update that counts every event as both a page view and an error.
countBoth(session, type) ==
    [session EXCEPT !.pageViews = @ + 1, !.errors = @ + 1]

\* The counter update of updateSessionStats.
count(session, type) ==
    IF type = "pageView" THEN [session EXCEPT !.pageViews = @ + 1]
    ELSE IF type = "error" THEN [session EXCEPT !.errors = @ + 1]
    ELSE session

\* An update that counts from a new session instead of the stored one: the
\* increments recorded before it are lost.
updateSessionStatsStale(w, type) ==
    Bind(getUserSession(w), LAMBDA got :
        lsSetItem(got.w, SessionKey(got.ret.sessionId),
                  stringify(touch(count(newSession(got.ret.sessionId, w.clock),
                                        type), w.clock))))

updateSessionStats(w, type) ==
    Bind(getUserSession(w), LAMBDA got :
        lsSetItem(got.w, SessionKey(got.ret.sessionId),
                  stringify(touch(count(got.ret, type), w.clock))))

\* 24 * 60 * 60 * 1000 ms
maxAge == 24 * 60 * 60 * 1000

\* A sweep that finds no session expired.
expiredNever(item, now) == FALSE

\* A sweep that also takes a session of exactly maxAge.
expiredAtMaxAge(item, now) ==
    item.shape = "session" /\ now - item.lastActivity >= maxAge

\* now - session.lastActivity > maxAge; an object without lastActivity gives
\* NaN, which is greater than nothing.
expired(item, now) == item.shape = "session" /\ now - item.lastActivity > maxAge

\* The body of the forEach callback of cleanupExpiredSessions for one key.
sweepKey(w, key) ==
    IF ~startsWithSession(key) THEN Ret(w, <<>>)
    ELSE Catch(Bind(lsGetItem(w, key), LAMBDA got :
                   IF parseThrows(got.ret) THEN Throw(got.w)
                   ELSE IF expired(got.ret, w.clock) THEN lsRemoveItem(got.w, key)
                   ELSE Ret(got.w, <<>>)),
               LAMBDA error : lsRemoveItem(error.w, key))

Pick(keys) == CHOOSE k \in keys : TRUE

RECURSIVE sweepKeys(_, _)
sweepKeys(w, keys) ==
    IF keys = {} THEN Ret(w, <<>>)
    ELSE Bind(sweepKey(w, Pick(keys)), LAMBDA one :
             sweepKeys(one.w, keys \ {Pick(keys)}))

\* Object.keys(localStorage): the keys that hold an item.
lsKeys(w) == {k \in Keys : w.ls[k].kind # "null"}

\* cleanupExpiredSessions(): void
cleanupExpiredSessions(w) ==
    IF w.lsMode = "denied" THEN Throw(w) ELSE sweepKeys(w, lsKeys(w))

\* ---------------------------------------------------------- event filter

\* Messages and URLs are token sequences; a regular expression without
\* anchors matches a text that contains its tokens contiguously, an anchored
\* one (^) a text that starts with them.
contains(text, toks) ==
    \E i \in 0..(Len(text) - Len(toks)) :
        \A j \in 1..Len(toks) : text[i + j] = toks[j]
startsWith(text, toks) ==
    /\ Len(text) >= Len(toks)
    /\ \A j \in 1..Len(toks) : text[j] = toks[j]
\* pattern.test(text)
test(pattern, text) ==
    IF pattern.anchored THEN startsWith(text, pattern.toks)
    ELSE contains(text, pattern.toks)

ignoreMessages ==
    {[anchored |-> FALSE, toks |-> <<"Script", "error">>],
     [anchored |-> FALSE, toks |-> <<"Non-Error", "promise", "rejection", "captured">>],
     [anchored |-> FALSE, toks |-> <<"ResizeObserver", "loop", "limit", "exceeded">>],
     [anchored |-> FALSE, toks |-> <<"ChunkLoadError">>]}
ignoreUrls ==
    {[anchored |-> FALSE, toks |-> <<"extensions/">>],
     [anchored |-> TRUE, toks |-> <<"chrome://">>],
     [anchored |-> TRUE, toks |-> <<"moz-extension://">>]}
ignoreErrors == {<<"Network", "Error">>, <<"NetworkError">>, <<"AbortError">>}

NoUrl == <<>>

\* A filter that compares whole messages instead of searching them.
shouldIgnoreErrorExact(message, url) ==
    \/ \E pattern \in ignoreMessages : message = pattern.toks
    \/ message \in ignoreErrors
    \/ url # NoUrl /\ \E pattern \in ignoreUrls : test(pattern, url)

shouldIgnoreError(message, url) ==
    IF \E pattern \in ignoreMessages : test(pattern, message) THEN TRUE
    ELSE IF message \in ignoreErrors THEN TRUE
    ELSE IF url # NoUrl /\ \E pattern \in ignoreUrls : test(pattern, url) THEN TRUE
    ELSE FALSE

\* --------------------------------------------------------------- delivery

NoEndpoint == ""
PageUrl == <<"https://", "app", "/">>

\* window.fetch after setupNetworkErrorMonitoring, up to its first await: the
\* call is timed and handed to the original fetch.  `origin` tells the host
\* application's calls from the agent's own; `layers` is the number of
\* wrappers around the browser's fetch the call goes through.
wrappedFetch(w, url, method, origin, body) ==
    LET call == [url |-> url, method |-> method, startTime |-> w.clock,
                 origin |-> origin, transport |-> "fetch", body |-> body,
                 layers |-> w.installed.fetchWrappers]
        w1 == [w EXCEPT !.inflight = Append(@, call)]
    IN IF origin = "agent"
       THEN [w1 EXCEPT !.posts = Append(@, [transport |-> "fetch", url |-> url,
                                            body |-> body])]
       ELSE w1

\* sendMetricToService / sendErrorToService / sendEventToService: async, so
\* nothing is thrown to the caller; the part before the await issues the POST.
sendToService(w, path, body) ==
    IF w.config.apiEndpoint = NoEndpoint THEN w
    ELSE wrappedFetch(w, <<w.config.apiEndpoint, path>>, "POST", "agent", body)

sendMetricToService(w, metric) == sendToService(w, "/metrics", metric)
sendErrorToService(w, error) == sendToService(w, "/errors", error)
sendEventToService(w, event) == sendToService(w, "/events", event)

metricRecord(name, value, now, sid) ==
    [kind |-> "metric", name |-> name, value |-> value, status |-> 0,
     timestamp |-> now, url |-> PageUrl, sessionId |-> sid]
networkErrorRecord(url, method, status, duration, now, sid) ==
    [kind |-> "networkError", name |-> method, value |-> duration,
     status |-> status, timestamp |-> now, url |-> url, sessionId |-> sid]
customEvent(name, now, sid) ==
    [kind |-> "event", name |-> name, value |-> 0, status |-> 0,
     timestamp |-> now, url |-> NoUrl, sessionId |-> sid]

recordPerformanceMetric(w, name, value) ==
    IF ~w.config.enablePerformanceTracking THEN Ret(w, <<>>)
    ELSE Bind(getSessionId(w), LAMBDA sid :
             Ret(sendMetricToService(sid.w,
                     metricRecord(name, value, w.clock, sid.ret)), <<>>))

recordNetworkError(w, url, method, status, duration) ==
    Bind(getSessionId(w), LAMBDA sid :
        Ret(sendErrorToService(
                [sid.w EXCEPT !.netErrors = Append(@,
                    networkErrorRecord(url, method, status, duration, w.clock,
                                       sid.ret))],
                networkErrorRecord(url, method, status, duration, w.clock,
                                   sid.ret)), <<>>))

recordCustomEvent(w, name) ==
    Bind(getSessionId(w), LAMBDA sid :
        Ret(sendEventToService(
                [sid.w EXCEPT !.events = Append(@, customEvent(name, w.clock,
                                                               sid.ret))],
                customEvent(name, w.clock, sid.ret)), <<>>))

\* ----------------------------------------------------- the fetch wrapper

\* response.ok
ok(status) == status >= 200 /\ status <= 299
\* The original fetch rejected: there is no response and no status.
Rejected == 0

\* How the wrapped call settles: ret is <<"resolved", "response">> with the
\* original response, <<"rejected", "error">> with the original fetch's error,
\* <<"rejected", "other">> with an error raised inside the wrapper.
rethrow(rec, caught) ==
    Ret(rec.w, <<"rejected", IF rec.threw THEN "other" ELSE caught>>)

\* The catch block of the wrapper.
fetchCatch(w, call, caught) ==
    rethrow(recordNetworkError(w, call.url, call.method, 0,
                               w.clock - call.startTime), caught)

\* The try block of the wrapper after `await originalFetch(...)` returned a
\* response with `status`.
fetchTry(w, call, status) ==
    Bind(IF w.clock - call.startTime > 5000
         THEN recordCustomEvent(w, "slow_request") ELSE Ret(w, <<>>),
         LAMBDA slow :
             IF ~ok(status)
             THEN Returning(recordNetworkError(slow.w, call.url, call.method,
                                               status, w.clock - call.startTime),
                            <<"resolved", "response">>)
             ELSE Ret(slow.w, <<"resolved", "response">>))

\* The wrapper after the original fetch settled, with a response of `status`
\* or (status = Rejected) with a rejection.
fetchContinuation(w, call, status) ==
    IF status = Rejected THEN fetchCatch(w, call, "error")
    ELSE Catch(fetchTry(w, call, status),
               LAMBDA thrown : fetchCatch(thrown.w, call, "other"))

\* A wrapper around a wrapper: what it awaits is the inner wrapper's promise,
\* settled as inner.ret.
outerWrapper(inner, call, status) ==
    IF inner.ret[1] = "resolved"
    THEN Catch(fetchTry(inner.w, call, status),
               LAMBDA thrown : fetchCatch(thrown.w, call, "other"))
    ELSE fetchCatch(inner.w, call, inner.ret[2])

\* The call settles through its n wrappers, innermost first.
RECURSIVE fetchThrough(_, _, _, _)
fetchThrough(w, call, status, n) ==
    IF n = 0
    THEN Ret(w, IF status = Rejected THEN <<"rejected", "error">>
                ELSE <<"resolved", "response">>)
    ELSE IF n = 1 THEN fetchContinuation(w, call, status)
    ELSE outerWrapper(fetchThrough(w, call, status, n - 1), call, status)

\* A delivery function without its try/catch.
deliveryUncaught(r) ==
    [w |-> r.w, threw |-> r.ret[1] = "rejected", ret |-> r.ret]

\* send...ToService / sendMetric after `await fetch(...)` settled as r.ret:
\* a rejection is caught and logged (console.error), nothing is sent again.
deliveryCatch(r) == Ret(r.w, r.ret)

\* The pending call settles for the code that awaits it: the application for
\* its own calls, the delivery function for the agent's.
awaited(w, call, status) ==
    IF call.origin = "agent"
    THEN deliveryCatch(fetchThrough(w, call, status, call.layers))
    ELSE fetchThrough(w, call, status, call.layers)

\* XMLHttpRequest.prototype.open and send after setupNetworkErrorMonitoring:
\* the request is timed; its loadend listener is registered.
xhrSend(w, url, method) ==
    [w EXCEPT !.inflight = Append(@, [url |-> url, method |-> method,
                                      startTime |-> w.clock, origin |-> "host",
                                      transport |-> "xhr",
                                      body |-> [kind |-> "host"],
                                      layers |-> w.installed.xhrWrappers])]

\* The loadend listener; this.status is 0 when no response was received.
xhrLoadend(w, call, status) ==
    IF status >= 400
    THEN recordNetworkError(w, call.url, call.method, status,
                            w.clock - call.startTime)
    ELSE Ret(w, <<>>)

\* The capturing 'error' listener of setupResourceErrorMonitoring, for an
\* element with a src or href that failed to load.
onResourceError(w) == recordCustomEvent(w, "resource_error")

\* ----------------------------------------------------- GlobalErrorHandler

maxQueueSize == 100

\* A push that evicts the newest record of a full queue instead of the oldest.
addToErrorQueueDropsNewest(w, error, type) ==
    [w EXCEPT !.errorQueue =
                  Append(IF Len(@) >= maxQueueSize THEN SubSeq(@, 1, Len(@) - 1)
                         ELSE @,
                         [eid |-> error.eid, message |-> error.message,
                          type |-> type]),
              !.accepted = Append(@, error.eid)]

\* addToErrorQueue(error, context); `accepted` keeps the history of pushes.
addToErrorQueue(w, error, type) ==
    [w EXCEPT !.errorQueue =
                  Append(IF Len(@) >= maxQueueSize THEN Tail(@) ELSE @,
                         [eid |-> error.eid, message |-> error.message,
                          type |-> type]),
              !.accepted = Append(@, error.eid)]

\* errorQueue.slice(-n)
sliceLast(queue, n) ==
    IF Len(queue) <= n THEN queue ELSE SubSeq(queue, Len(queue) - n + 1, Len(queue))

\* A compaction that keeps the oldest 50 records.
cleanupErrorQueueOldest(w) ==
    IF Len(w.errorQueue) > 50
    THEN [w EXCEPT !.errorQueue = SubSeq(@, 1, 50), !.refs.errorQueue = @ + 1]
    ELSE w

\* this.errorQueue = this.errorQueue.slice(-50): a new array.
cleanupErrorQueue(w) ==
    IF Len(w.errorQueue) > 50
    THEN [w EXCEPT !.errorQueue = sliceLast(@, 50), !.refs.errorQueue = @ + 1]
    ELSE w

\* this.errorQueue = []: a new array.
clearErrorQueue(w) == [w EXCEPT !.errorQueue = <<>>, !.refs.errorQueue = @ + 1]

\* A read that hands out the queue itself.
getErrorQueueLive(w) ==
    Ret(w, [kind |-> "errors", ref |-> w.refs.errorQueue, items |-> w.errorQueue])

\* getErrorQueue(): [...this.errorQueue], a new array with the same records.
getErrorQueue(w) ==
    Ret(w, [kind |-> "errors", ref |-> 0, items |-> w.errorQueue])

\* The context types of the queue, and the forEach of getErrorStats: the
\* number of records under each type.
typesOf(queue) == {queue[i].type : i \in 1..Len(queue)}
byType(queue) ==
    [t \in typesOf(queue) |->
        Cardinality({i \in 1..Len(queue) : queue[i].type = t})]

\* Statistics whose `recent` holds five records.
getErrorStatsFive(w) ==
    Ret(w, [total |-> Len(w.errorQueue), byType |-> byType(w.errorQueue),
            recent |-> sliceLast(w.errorQueue, 5)])

\* getErrorStats()
getErrorStats(w) ==
    Ret(w, [total |-> Len(w.errorQueue), byType |-> byType(w.errorQueue),
            recent |-> sliceLast(w.errorQueue, 10)])

\* formatErrorInfo(error, errorInfo, errorBoundary)
formatErrorInfo(w, error, errorBoundary) ==
    Bind(getSessionId(w), LAMBDA sid :
        Ret(sid.w, [message |-> error.message, errorBoundary |-> errorBoundary,
                    timestamp |-> w.clock, url |-> PageUrl,
                    sessionId |-> sid.ret]))

\* processError(error, context, errorInfo): errorInfo is not used by the body.
\* The localStorage read is the one inside the Sentry.withScope callback.
processError(w, error, type) ==
    Bind(updateSessionStats(w, "error"), LAMBDA upd :
        Bind(lsGetItem(addToErrorQueue(upd.w, error, type), UserIdKey),
             LAMBDA userId : recordCustomEvent(userId.w, "error_occurred")))

\* A manual path that keeps the type its caller supplied.
reportErrorKeepsType(w, error, contextType) ==
    IF ~shouldIgnoreError(error.message, NoUrl)
    THEN Bind(formatErrorInfo(w, error, "ManualReport"), LAMBDA info :
             processError(info.w, error,
                          IF contextType = "" THEN "manual_report" ELSE contextType))
    ELSE Ret(w, <<>>)

\* reportError(error, context): context.type is overwritten by 'manual_report'.
reportError(w, error, contextType) ==
    IF ~shouldIgnoreError(error.message, NoUrl)
    THEN Bind(formatErrorInfo(w, error, "ManualReport"), LAMBDA info :
             processError(info.w, error, "manual_report"))
    ELSE Ret(w, <<>>)

\* handleGlobalError(event) with error = event.error || new Error(event.message)
handleGlobalError(w, error, filename) ==
    IF shouldIgnoreError(error.message, filename) THEN Ret(w, <<>>)
    ELSE Bind(formatErrorInfo(w, error, "GlobalErrorHandler"), LAMBDA info :
             processError(info.w, error, "javascript_error"))

\* handleUnhandledRejection(event); ret tells whether preventDefault was called.
handleUnhandledRejection(w, error) ==
    IF shouldIgnoreError(error.message, NoUrl) THEN Ret(w, FALSE)
    ELSE Bind(formatErrorInfo(w, error, "GlobalErrorHandler"), LAMBDA info :
             Returning(processError(info.w, error, "unhandled_promise_rejection"),
                       w.config.environment = "production"))

\* setupGlobalHandlers(): what GlobalErrorHandler.init() installs.
setupGlobalHandlers(w) ==
    [w EXCEPT !.installed.errorListeners = @ + 2,     \* handleGlobalError, resource
              !.installed.rejectionListeners = @ + 1,
              !.installed.fetchWrappers = @ + 1,
              !.installed.xhrWrappers = @ + 1,
              !.installed.timers = @ + 1]             \* cleanupErrorQueue, 60 s

handlerInit(w) ==
    IF ~w.config.enableErrorTracking \/ w.installed.handlerInitialized THEN w
    ELSE setupGlobalHandlers([w EXCEPT !.installed.handlerInitialized = TRUE])

\* new GlobalErrorHandler() next to the module's instance: the constructor
\* calls init(), and isInitialized of the new object is false.
newHandler(w) ==
    IF ~w.config.enableErrorTracking THEN w ELSE setupGlobalHandlers(w)

\* ----------------------------------------------------- WebVitalsCollector

\* Metric values and thresholds are in thousandths of the source's unit, so
\* that a CLS score of 0.1 and an LCP of 2500.001 ms are integers.
Milli(x) == x * 1000
performanceThresholds ==
    [LCP |-> [good |-> Milli(2500), needsImprovement |-> Milli(4000)],
     FID |-> [good |-> Milli(100), needsImprovement |-> Milli(300)],
     CLS |-> [good |-> 100, needsImprovement |-> 250],
     FCP |-> [good |-> Milli(1800), needsImprovement |-> Milli(3000)],
     TTFB |-> [good |-> Milli(800), needsImprovement |-> Milli(1800)]]
MetricNames == {"LCP", "FID", "CLS", "FCP", "TTFB"}

\* A rating that puts a value on a threshold into the worse bucket.
getRatingStrict(name, value) ==
    IF name \notin DOMAIN performanceThresholds THEN "good"
    ELSE IF value < performanceThresholds[name].good THEN "good"
    ELSE IF value < performanceThresholds[name].needsImprovement
         THEN "needs-improvement"
    ELSE "poor"

getRating(name, value) ==
    IF name \notin DOMAIN performanceThresholds THEN "good"
    ELSE LET threshold == performanceThresholds[name] IN
         IF value <= threshold.good THEN "good"
         ELSE IF value <= threshold.needsImprovement THEN "needs-improvement"
         ELSE "poor"

webVitalRecord(metric, sid) ==
    [kind |-> "webVital", name |-> metric.name, value |-> metric.value,
     status |-> 0, timestamp |-> metric.timestamp, url |-> PageUrl,
     sessionId |-> sid]

\* WebVitalsCollector.sendMetric: async; getSessionId() is evaluated inside
\* the try block, so its exception is caught and nothing is sent.
sendMetric(w, metric, rating) ==
    IF w.config.apiEndpoint = NoEndpoint THEN w
    ELSE Bind(getSessionId(w), LAMBDA sid :
             Ret(wrappedFetch(sid.w, <<w.config.apiEndpoint, "/web-vitals">>,
                              "POST", "agent", webVitalRecord(metric, sid.ret)),
                 <<>>)).w

handlePoorPerformance(w, metric) == recordCustomEvent(w, "performance_issue")

handleMetric(w, metric) ==
    Bind(recordCustomEvent(
             sendMetric([w EXCEPT !.metrics = Append(@, metric)], metric,
                        getRating(metric.name, metric.value)),
             "web_vital"),
         LAMBDA ev :
             IF getRating(metric.name, metric.value) = "poor"
             THEN handlePoorPerformance(ev.w, metric)
             ELSE ev)

NoEntry == [present |-> FALSE, value |-> 0, rating |-> ""]

\* Date.now() at the page load, in ms since 1970: the model keeps timestamps
\* relative to it.  It stands for a number of the order of 10^12, which is
\* above every metric value (and above what the model checker's integers
\* hold).
Epoch == 1700000000

\* The forEach callback of getMetricsSummary, as written: a record replaces the
\* entry of its name when there is none or when its timestamp (ms since 1970)
\* exceeds the entry's value (values are in thousandths).
summaryStep(summary, metric) ==
    IF ~summary[metric.name].present
       \/ Epoch + metric.timestamp > summary[metric.name].value \div 1000
    THEN [summary EXCEPT ![metric.name] =
             [present |-> TRUE, value |-> metric.value,
              rating |-> getRating(metric.name, metric.value)]]
    ELSE summary

RECURSIVE summarize(_, _)
summarize(summary, ms) ==
    IF ms = <<>> THEN summary
    ELSE summarize(summaryStep(summary, Head(ms)), Tail(ms))

getMetricsSummary(w) == summarize([n \in MetricNames |-> NoEntry], w.metrics)

\* getMetrics(): [...this.metrics], a new array with the same records.
getMetrics(w) ==
    Ret(w, [kind |-> "metrics", ref |-> 0, items |-> w.metrics])

\* clearMetrics(): this.metrics = [], a new array.
clearMetrics(w) == [w EXCEPT !.metrics = <<>>, !.refs.metrics = @ + 1]

\* The visibilitychange listener of initWebVitals, page hidden.
RECURSIVE sendFinals(_, _)
sendFinals(w, ms) ==
    IF ms = <<>> THEN Ret(w, <<>>)
    ELSE Bind(recordCustomEvent(w, "web_vital_final"), LAMBDA ev :
             sendFinals(ev.w, Tail(ms)))

onHidden(w) == sendFinals(w, w.metrics)

summaryRecord(summary, now, sid) ==
    [kind |-> "summary", summary |-> summary, timestamp |-> now,
     url |-> PageUrl, sessionId |-> sid]

\* The beforeunload listener of initWebVitals (navigator.sendBeacon exists).
onBeforeUnloadVitals(w) ==
    IF w.config.apiEndpoint = NoEndpoint THEN Ret(w, <<>>)
    ELSE Bind(getSessionId(w), LAMBDA sid :
             Ret([sid.w EXCEPT !.posts = Append(@,
                     [transport |-> "beacon",
                      url |-> <<w.config.apiEndpoint, "/web-vitals-summary">>,
                      body |-> summaryRecord(getMetricsSummary(w), w.clock,
                                             sid.ret)])], <<>>))

initWebVitals(w) ==
    IF ~w.config.enableWebVitals THEN w
    ELSE [w EXCEPT !.installed.visibilityListeners = @ + 1,
                   !.installed.unloadListeners = @ + 1]

\* ------------------------------------------------------ MonitoringService

initPerformanceMonitoring(w) ==
    IF ~w.config.enablePerformanceTracking THEN w
    ELSE [w EXCEPT !.installed.observers = @ + 1,           \* resource timing
                   !.installed.visibilityListeners = @ + 1,
                   !.installed.timers = @ + 1]              \* memory check, 30 s

setupCleanupTasks(w) ==
    [w EXCEPT !.installed.timers = @ + 1,                   \* hourly sweep
              !.installed.unloadListeners = @ + 1]

\* An init() without the isInitialized guard.
serviceInitUnguarded(w) ==
    setupCleanupTasks(initPerformanceMonitoring(initWebVitals(
        [w EXCEPT !.installed.serviceInitialized = TRUE])))

\* MonitoringService.init()
serviceInit(w) ==
    IF w.installed.serviceInitialized THEN w
    ELSE setupCleanupTasks(initPerformanceMonitoring(initWebVitals(
             [w EXCEPT !.installed.serviceInitialized = TRUE])))

\* initMonitoring(): returns the module's instance.
initMonitoring(w) == w

\* Two listeners of one event, in the order they were registered: an exception
\* in the first does not keep the second from running.
both(first, second) ==
    [w |-> second.w, threw |-> first.threw \/ second.threw, ret |-> <<>>]
thenListener(first, listener(_)) == both(first, listener(first.w))

\* The n loadend listeners of a request sent through n send wrappers.
RECURSIVE xhrLoadends(_, _, _, _)
xhrLoadends(w, call, status, n) ==
    IF n = 0 THEN Ret(w, <<>>)
    ELSE thenListener(xhrLoadend(w, call, status),
                      LAMBDA w1 : xhrLoadends(w1, call, status, n - 1))

\* beforeunload: the listener of initWebVitals, then that of setupCleanupTasks.
onBeforeUnload(w) ==
    thenListener(onBeforeUnloadVitals(w), cleanupExpiredSessions)

\* WebVitalsCollector.init(): the five web-vitals subscriptions.
collectorInit(w) ==
    IF ~w.config.enableWebVitals \/ w.installed.collectorInitialized THEN w
    ELSE [w EXCEPT !.installed.collectorInitialized = TRUE,
                   !.installed.observers = @ + 5]

\* --------------------------------------------------------- the HTTP client

\* httpClient is created with interceptors of the Axios kind: a failed
\* attempt (no response, or a response whose status is not 2xx) goes through
\* the rejected handlers of the response interceptors in the order they were
\* registered, setupInterceptors' first, setupRetryInterceptor's second; an
\* exception in a handler replaces the error passed on.

\* getFullUrl(config) of the requests: baseURL of the development environment.
HttpUrl == <<"http://", "localhost:3001", "/api">>

\* setupRetryInterceptor(httpClient, 3)
maxRetries == 3
retryableStatuses == {408, 429, 500, 502, 503, 504}

\* Math.pow(2, e) * 1000
backoff(e) == IF e >= 0 THEN (2 ^ e) * 1000 ELSE 1000 \div (2 ^ (0 - e))

\* A request config as the application passes it to httpClient: hasRetries is
\* FALSE when config.retries is undefined.  `initial`, `attempts` and `delays`
\* keep, for the properties, the retries it started with, the number of times
\* it was sent and the waits before the re-sends.
newRequest(retries, hasRetries) ==
    [retries |-> retries, hasRetries |-> hasRetries, initial |-> retries,
     startTime |-> 0, attempts |-> 0, delays |-> <<>>, phase |-> "new",
     status |-> 0, error |-> "none"]

\* The request interceptor of setupInterceptors: it reads authToken and userId
\* from localStorage and the session id from sessionStorage.
requestInterceptor(w) ==
    Bind(lsGetItem(w, UserIdKey), LAMBDA userId : ssGetItem(userId.w))

\* The promise of the request is rejected with `error`: "axios" is an
\* AxiosError carrying the config, "other" an exception without config.
rejectedWith(req, status, error) ==
    [req EXCEPT !.phase = "rejected", !.status = status, !.error = error]

\* client(config): the request interceptor, then the attempt is sent.  An
\* exception in the interceptor rejects the request; no rejected handler
\* finds a config in it.
client(w, req) ==
    Catch(Returning(requestInterceptor(w),
                    [req EXCEPT !.attempts = @ + 1, !.phase = "sent",
                                !.startTime = w.clock]),
          LAMBDA thrown : Ret(thrown.w, rejectedWith(req, 0, "other")))

\* HttpMonitoringAdapter.recordError(error, config, startTime); `error` is the
\* object of a network error when there was no response.
httpRecordError(w, req, status, error) ==
    IF status # Rejected
    THEN Bind(recordNetworkError(w, HttpUrl, "GET", status, w.clock - req.startTime),
              LAMBDA net : recordCustomEvent(net.w, "http_request_error"))
    ELSE Bind(recordNetworkError(w, HttpUrl, "GET", 0, w.clock - req.startTime),
              LAMBDA net :
                  Bind(reportError(net.w, error, "http_network_error"),
                       LAMBDA rep : recordCustomEvent(rep.w, "http_request_error")))

\* The rejected handler of setupInterceptors' response interceptor: the error
\* is recorded; a 401 removes authToken and userId from localStorage.
responseError(w, req, status, error) ==
    Bind(httpRecordError(w, req, status, error), LAMBDA rec :
        IF status = 401 THEN lsRemoveItem(rec.w, UserIdKey) ELSE rec)

\* A retry handler that retries whatever the response was.
retryRejectedAnyStatus(req, status, error) ==
    IF error # "axios" \/ ~req.hasRetries \/ req.retries = 0 \/ req.retries <= 0
    THEN rejectedWith(req, status, error)
    ELSE [req EXCEPT !.retries = @ - 1,
                     !.delays = Append(@, backoff(maxRetries - (req.retries - 1))),
                     !.phase = "waiting", !.status = status]

\* A retry handler that retries while retries is not negative.
retryRejectedOnceMore(req, status, error) ==
    IF error # "axios" \/ ~req.hasRetries \/ req.retries < 0
    THEN rejectedWith(req, status, error)
    ELSE IF status # Rejected /\ status \notin retryableStatuses
    THEN rejectedWith(req, status, error)
    ELSE [req EXCEPT !.retries = @ - 1,
                     !.delays = Append(@, backoff(maxRetries - (req.retries - 1))),
                     !.phase = "waiting", !.status = status]

\* The rejected handler of setupRetryInterceptor, up to its await: the error
\* is rejected again, or retries is decremented and the wait begins.
retryRejected(req, status, error) ==
    IF error # "axios" \/ ~req.hasRetries \/ req.retries = 0 \/ req.retries <= 0
    THEN rejectedWith(req, status, error)
    ELSE IF status # Rejected /\ status \notin retryableStatuses
    THEN rejectedWith(req, status, error)
    ELSE [req EXCEPT !.retries = @ - 1,
                     !.delays = Append(@, backoff(maxRetries - (req.retries - 1))),
                     !.phase = "waiting", !.status = status]

\* An attempt failed: both rejected handlers, in their order.
attemptFailed(w, req, status, error) ==
    Catch(Bind(responseError(w, req, status, error), LAMBDA first :
              Ret(first.w, retryRejected(req, status, "axios"))),
          LAMBDA thrown : Ret(thrown.w, retryRejected(req, status, "other")))

\* HttpMonitoringAdapter.recordRequest(config, response, startTime)
httpRecordRequest(w, req) ==
    Bind(IF w.clock - req.startTime > 5000
         THEN recordCustomEvent(w, "slow_request") ELSE Ret(w, <<>>),
         LAMBDA slow : recordCustomEvent(slow.w, "http_request_success"))

\* An attempt got a 2xx response: the fulfilled handler of setupInterceptors,
\* then that of setupRetryInterceptor (the identity); an exception in the
\* first goes to the rejected handler of the second.
attemptSucceeded(w, req, status) ==
    Catch(Returning(httpRecordRequest(w, req),
                    [req EXCEPT !.phase = "resolved", !.status = status]),
          LAMBDA thrown : Ret(thrown.w, retryRejected(req, status, "other")))

\* The i-th request becomes r.ret.
stored(r, i) == Ret([r.w EXCEPT !.http[i] = r.ret], <<>>)

\* ---------------------------------------------------------- the auth store

\* The state of useAuthStore the session timeout depends on: sessionTimeout
\* is 0 for null.  `timers` holds the setTimeout callbacks not yet run, each
\* with the time it is due; `setAt` keeps, for the properties, the time of the
\* last setSessionTimeout and `timeouts` the session-timeout events
\* dispatched.  (The persist middleware of the store is not part of the state
\* modelled here.)
initialState ==
    [isAuthenticated |-> FALSE, sessionTimeout |-> 0, lastLoginTime |-> 0,
     timers |-> <<>>, setAt |-> 0, timeouts |-> 0]

\* setAuthenticated(authenticated)
setAuthenticated(w, authenticated) ==
    IF authenticated
    THEN [w EXCEPT !.auth.isAuthenticated = TRUE, !.auth.lastLoginTime = w.clock]
    ELSE [w EXCEPT !.auth.isAuthenticated = FALSE, !.auth.sessionTimeout = 0,
                   !.auth.lastLoginTime = 0]

\* storage.remove(key) of stores/config.ts: an exception of localStorage is
\* caught and logged.
storageRemove(w, key) ==
    Catch(lsRemoveItem(w, key), LAMBDA thrown : Ret(thrown.w, <<>>)).w

\* setSessionTimeout(timeout): a truthy timeout starts a timer; no timer is
\* ever cleared.
setSessionTimeout(w, timeout) ==
    IF timeout # 0
    THEN [w EXCEPT !.auth.sessionTimeout = timeout, !.auth.setAt = w.clock,
                   !.auth.timers = Append(@, [due |-> w.clock + timeout])]
    ELSE [w EXCEPT !.auth.sessionTimeout = timeout, !.auth.setAt = w.clock]

\* The callback of the timer of setSessionTimeout.
sessionTimerFires(w) ==
    IF w.auth.isAuthenticated
    THEN [storageRemove(setAuthenticated(w, FALSE), UserIdKey)
             EXCEPT !.auth.timeouts = @ + 1]
    ELSE w

\* resetAuth(): set(initialState); the timers are no part of the state.
resetAuth(w) ==
    storageRemove([w EXCEPT !.auth.isAuthenticated = FALSE,
                            !.auth.sessionTimeout = 0,
                            !.auth.lastLoginTime = 0], UserIdKey)

\* ------------------------------------------------------------ initial state

\* monitoringConfig; sampleRate is in tenths (10 is 1.0, 1 is 0.1).
Configs ==
    {[enableErrorTracking |-> TRUE, enablePerformanceTracking |-> TRUE,
      enableWebVitals |-> TRUE, sampleRate |-> c[1], environment |-> c[2],
      apiEndpoint |-> c[3]] :
        c \in {<<10, "development", NoEndpoint>>,
               <<10, "development", "https://collector">>,
               <<1, "production", "https://collector">>,
               <<0, "production", "https://collector">>}}

NothingInstalled ==
    [handlerInitialized |-> FALSE, collectorInitialized |-> FALSE,
     serviceInitialized |-> FALSE, errorListeners |-> 0, rejectionListeners |-> 0,
     fetchWrappers |-> 0, xhrWrappers |-> 0, visibilityListeners |-> 0,
     unloadListeners |-> 0, timers |-> 0, observers |-> 0]

Blank(cfg) ==
    [ss |-> NoId, ssMode |-> "ok", ls |-> [k \in Keys |-> Null], lsMode |-> "ok",
     nextId |-> 1, clock |-> 0, config |-> cfg, errorQueue |-> <<>>,
     metrics |-> <<>>, posts |-> <<>>, inflight |-> <<>>, netErrors |-> <<>>,
     events |-> <<>>, installed |-> NothingInstalled,
     refs |-> [errorQueue |-> 1, metrics |-> 1], http |-> <<>>,
     auth |-> initialState, accepted |-> <<>>]

\* The page after main.tsx has imported services/monitoring: the module-level
\* instances webVitalsCollector, globalErrorHandler and monitoringService exist.
Loaded(cfg) == serviceInit(handlerInit(collectorInit(Blank(cfg))))

ScriptError == <<"Script", "error">>
NormalError == <<"Normal", "error">>
UncaughtScriptError == <<"Uncaught", "Script", "error">>
NetworkTimeout == <<"Network", "Error", "timeout">>
Messages == {ScriptError, UncaughtScriptError, NormalError, <<"Network", "Error">>,
             NetworkTimeout}

AppJs == <<"https://", "app", "/", "main.js">>
ChromeJs == <<"chrome://", "inject.js">>
ExtensionJs == <<"https://", "cdn", "/", "extensions/", "a.js">>
\* The error events the browser delivers: <<message of the error, filename>>.
ErrorEvents == {<<NormalError, AppJs>>, <<NormalError, ChromeJs>>,
                <<NetworkTimeout, ExtensionJs>>, <<UncaughtScriptError, AppJs>>}
\* The reasons of the rejections the browser reports.
Reasons == {NormalError, ScriptError, <<"Network", "Error">>}

\* n manual reports of a kept error, one after the other (errors 1-n .. 0).
RECURSIVE manualReports(_, _)
manualReports(w, n) ==
    IF n = 0 THEN w
    ELSE manualReports(reportError(w, [eid |-> 1 - n, message |-> NormalError],
                                   "").w, n - 1)

\* The same world written out, for n <= maxQueueSize reports on a loaded page:
\* what manualReports(Loaded(cfg), n) evaluates to (see AfterReportsAgrees).
AfterReports(cfg, n) ==
    IF n = 0 THEN Loaded(cfg)
    ELSE
    LET event == [kind |-> "event", name |-> "error_occurred", value |-> 0,
                  status |-> 0, timestamp |-> 0, url |-> NoUrl,
                  sessionId |-> IdPool[1]]
        sent == IF cfg.apiEndpoint = NoEndpoint THEN 0 ELSE n
    IN [Loaded(cfg) EXCEPT
          !.ss = IdPool[1],
          !.nextId = 2,
          !.ls[SessionKey(IdPool[1])] =
              stringify([sessionId |-> IdPool[1], startTime |-> 0,
                         lastActivity |-> 0, pageViews |-> 1, errors |-> n]),
          !.errorQueue = [i \in 1..n |-> [eid |-> i - n, message |-> NormalError,
                                          type |-> "manual_report"]],
          !.accepted = [i \in 1..n |-> i - n],
          !.events = [i \in 1..n |-> event],
          !.posts = [i \in 1..sent |->
                        [transport |-> "fetch",
                         url |-> <<cfg.apiEndpoint, "/events">>, body |-> event]],
          !.inflight = [i \in 1..sent |->
                           [url |-> <<cfg.apiEndpoint, "/events">>,
                            method |-> "POST", startTime |-> 0,
                            origin |-> "agent", transport |-> "fetch",
                            body |-> event,
                            layers |-> Loaded(cfg).installed.fetchWrappers]]]

AfterReportsAgrees ==
    \A cfg \in Configs, n \in 0..3 :
        AfterReports(cfg, n) = manualReports(Loaded(cfg), n)

Idle == [op |-> "load", threw |-> FALSE, message |-> <<>>, url |-> NoUrl,
         ignored |-> FALSE, type |-> "", origin |-> "", status |-> 0, value |-> 0,
         body |-> [kind |-> "none"],
         ret |-> <<>>, sid |-> NoId, count |-> 0]

\* A list handed to a caller: `ref` is the identity of the array object (0: an
\* array no field of the agent refers to), `items` its content as the caller
\* sees it.
NoSnapshot == [kind |-> "none", ref |-> 0, items |-> <<>>]
\* The list is the array object the agent's field refers to in w.
held(s, w) ==
    \/ s.kind = "errors" /\ s.ref = w.refs.errorQueue
    \/ s.kind = "metrics" /\ s.ref = w.refs.metrics
\* The caller's list after a step of the agent from `before` to `after`: an
\* array the agent still refers to shows the agent's changes.
seen(s, before, after) ==
    IF held(s, before) /\ held(s, after)
    THEN [s EXCEPT !.items = IF s.kind = "errors" THEN after.errorQueue
                              ELSE after.metrics]
    ELSE s

\* The world starts as w, with `history` the errors reported so far.
InitWith(w, history, ops) ==
    /\ ss = w.ss /\ ssMode = w.ssMode /\ ls = w.ls /\ lsMode = w.lsMode
    /\ nextId = w.nextId /\ clock = w.clock /\ config = w.config
    /\ errorQueue = w.errorQueue /\ metrics = w.metrics /\ posts = w.posts
    /\ inflight = w.inflight /\ netErrors = w.netErrors
    /\ events = w.events /\ installed = w.installed
    /\ refs = w.refs
    /\ http = w.http
    /\ auth = w.auth
    /\ snap = NoSnapshot
    /\ accepted = w.accepted
    /\ reports = history
    /\ dirty = FALSE
    /\ seenSid = NoId
    /\ last = Idle
    /\ nOps = 0
    /\ maxOps = ops

\* The page is loaded and has manually reported `n` kept errors so far.
InitAfter(n, ops) ==
    \E cfg \in Configs :
        InitWith(AfterReports(cfg, n), [i \in 1..n |-> i - n], ops)

\* ---------------------------------------------------------------- actions

CanStep == nOps < maxOps /\ (ss # NoId \/ nextId <= MaxIds)

Step(r, l) ==
    /\ Commit(r.w)
    /\ last' = [l EXCEPT !.threw = r.threw]
    /\ nOps' = nOps + 1
    /\ UNCHANGED maxOps

Done(r, l) ==
    /\ Step(r, l)
    /\ snap' = seen(snap, World, r.w)
    /\ UNCHANGED seenSid

\* The error object of this step: a new object, told from all others by eid.
Err(m) == [eid |-> nOps + 1, message |-> m]

\* The host application calls reportError(error, context).
OnReportError(m, contextType) ==
    /\ CanStep
    /\ Done(reportError(World, Err(m), contextType),
            [Idle EXCEPT !.op = "reportError", !.message = m,
                         !.type = contextType,
                         !.ignored = shouldIgnoreError(m, NoUrl)])
    /\ reports' = IF shouldIgnoreError(m, NoUrl) THEN reports
                  ELSE Append(reports, nOps + 1)
    /\ dirty' = dirty

\* The window's error event for an uncaught exception.
OnGlobalError(m, filename) ==
    /\ CanStep
    /\ Done(handleGlobalError(World, Err(m), filename),
            [Idle EXCEPT !.op = "handleGlobalError", !.message = m,
                         !.url = filename,
                         !.ignored = shouldIgnoreError(m, filename)])
    /\ dirty' = (dirty \/ accepted' # accepted)
    /\ UNCHANGED reports

\* The window's unhandledrejection event.
OnUnhandledRejection(m) ==
    /\ CanStep
    /\ Done(handleUnhandledRejection(World, Err(m)),
            [Idle EXCEPT !.op = "handleUnhandledRejection", !.message = m,
                         !.ignored = shouldIgnoreError(m, NoUrl)])
    /\ dirty' = (dirty \/ accepted' # accepted)
    /\ UNCHANGED reports

\* The 60 s interval of setupGlobalHandlers fires.
OnCleanupErrorQueue ==
    /\ CanStep
    /\ installed.handlerInitialized
    /\ Done(Ret(cleanupErrorQueue(World), <<>>), [Idle EXCEPT !.op = "cleanupErrorQueue"])
    /\ dirty' = TRUE
    /\ UNCHANGED reports

\* The dashboard calls clearErrorQueue().
OnClearErrorQueue ==
    /\ CanStep
    /\ Done(Ret(clearErrorQueue(World), <<>>), [Idle EXCEPT !.op = "clearErrorQueue"])
    /\ dirty' = TRUE
    /\ UNCHANGED reports

\* The browser starts or stops refusing storage accesses (storage blocked by
\* the user, quota exhausted by other data of the origin).
StorageChanges(sm, lm) ==
    /\ CanStep
    /\ <<sm, lm>> # <<ssMode, lsMode>>
    /\ Done(Ret([World EXCEPT !.ssMode = sm, !.lsMode = lm], <<>>),
            [Idle EXCEPT !.op = "storageChanges"])
    /\ UNCHANGED <<reports, dirty>>

\* Another script of the origin overwrites a persisted session record with a
\* text that is no JSON.
SessionCorrupted(key) ==
    /\ CanStep
    /\ startsWithSession(key)
    /\ ls[key].kind = "json"
    /\ Done(Ret([World EXCEPT !.ls[key] = NotJson], <<>>),
            [Idle EXCEPT !.op = "sessionCorrupted"])
    /\ UNCHANGED <<reports, dirty>>

\* ----- the session tracker's callers

\* A call that returns a session id to its caller.
Got(r, op) ==
    /\ Step(r, [Idle EXCEPT !.op = op, !.sid = IF r.threw THEN NoId ELSE r.ret])
    /\ seenSid' = IF r.threw THEN seenSid ELSE r.ret
    /\ snap' = seen(snap, World, r.w)
    /\ UNCHANGED <<reports, dirty>>

OnGetSessionId ==
    /\ CanStep
    /\ Got(getSessionId(World), "getSessionId")

OnGetUserSession ==
    /\ CanStep
    /\ Got(Bind(getUserSession(World), LAMBDA s : Ret(s.w, s.ret.sessionId)),
           "getUserSession")

OnUpdateSessionStats(type) ==
    /\ CanStep
    /\ Done(updateSessionStats(World, type),
            [Idle EXCEPT !.op = "updateSessionStats", !.type = type])
    /\ UNCHANGED <<reports, dirty>>

\* A sweep: `ret` is what it returned, `count` the number of items it removed.
Swept(r) ==
    Done(r, [Idle EXCEPT !.op = "cleanupExpiredSessions", !.ret = r.ret,
                         !.count = Cardinality({k \in Keys :
                                        ls[k] # Null /\ r.w.ls[k] = Null})])

\* The hourly interval of setupCleanupTasks fires.
OnSweep ==
    /\ CanStep
    /\ installed.serviceInitialized
    /\ Swept(cleanupExpiredSessions(World))
    /\ UNCHANGED <<reports, dirty>>

\* Time passes.
Tick(d) ==
    /\ CanStep
    /\ Done(Ret([World EXCEPT !.clock = @ + d], <<>>), [Idle EXCEPT !.op = "tick"])
    /\ UNCHANGED <<reports, dirty>>

\* The tab's sessionStorage is cleared (sessionStorage.clear() of the auth
\* store, or the user clearing site data of the tab).
TabStorageCleared ==
    /\ CanStep
    /\ ss # NoId
    /\ Step(Ret([World EXCEPT !.ss = NoId], <<>>),
            [Idle EXCEPT !.op = "tabStorageCleared"])
    /\ seenSid' = NoId
    /\ UNCHANGED <<snap, reports, dirty>>

\* MonitoringService.setUser({ id }): the user id goes to localStorage.
setUser(w) == lsSetItem(w, UserIdKey, NotJson)

OnSetUser ==
    /\ CanStep
    /\ Done(setUser(World), [Idle EXCEPT !.op = "setUser"])
    /\ UNCHANGED <<reports, dirty>>

\* main.tsx (or any other module) calls initMonitoring().
OnInitMonitoring ==
    /\ CanStep
    /\ Done(Ret(initMonitoring(World), <<>>), [Idle EXCEPT !.op = "initMonitoring"])
    /\ UNCHANGED <<reports, dirty>>

\* init() of the monitoring service runs once more.
OnServiceInit ==
    /\ CanStep
    /\ Done(Ret(serviceInit(World), <<>>), [Idle EXCEPT !.op = "init"])
    /\ UNCHANGED <<reports, dirty>>

\* ----- the network

AppApi == <<"https://", "app", "/", "api">>
Statuses == {200, 404, 500, Rejected}

\* The host application calls window.fetch(url).
OnHostFetch ==
    /\ CanStep
    /\ Done(Ret(wrappedFetch(World, AppApi, "GET", "host", [kind |-> "host"]), <<>>),
            [Idle EXCEPT !.op = "fetch", !.origin = "host", !.url = AppApi])
    /\ UNCHANGED <<reports, dirty>>

\* seq without its i-th element
without(seq, i) == SubSeq(seq, 1, i - 1) \o SubSeq(seq, i + 1, Len(seq))

Settled(r, call, status, op) ==
    Done(r, [Idle EXCEPT !.op = op, !.origin = call.origin,
                         !.url = call.url, !.status = status, !.ret = r.ret,
                         !.value = clock - call.startTime,
                         !.body = call.body,
                         !.count = Len(r.w.netErrors) - Len(netErrors)])

\* The original fetch of the i-th pending call settles: with a response of
\* `status`, or with a rejection.  For a call of the agent itself the awaiting
\* send...ToService then catches a rejection and logs it.
OnFetchSettles(i, status) ==
    /\ CanStep
    /\ i \in 1..Len(inflight)
    /\ inflight[i].transport = "fetch"
    /\ Settled(awaited([World EXCEPT !.inflight = without(@, i)],
                       inflight[i], status),
               inflight[i], status, "fetchSettles")
    /\ UNCHANGED <<reports, dirty>>

\* The host application opens and sends an XMLHttpRequest.
OnXhrSend ==
    /\ CanStep
    /\ Done(Ret(xhrSend(World, AppApi, "GET"), <<>>),
            [Idle EXCEPT !.op = "xhrSend", !.origin = "host", !.url = AppApi])
    /\ UNCHANGED <<reports, dirty>>

\* The i-th pending call, an XMLHttpRequest, ends: loadend with this.status
\* = status (0: network error, timeout or abort).
OnXhrLoadend(i, status) ==
    /\ CanStep
    /\ i \in 1..Len(inflight)
    /\ inflight[i].transport = "xhr"
    /\ Settled(xhrLoadends([World EXCEPT !.inflight = without(@, i)],
                           inflight[i], status, inflight[i].layers),
               inflight[i], status, "xhrLoadend")
    /\ UNCHANGED <<reports, dirty>>

\* An img, script or link of the page fails to load.
OnResourceError ==
    /\ CanStep
    /\ installed.errorListeners > 0
    /\ Done(onResourceError(World), [Idle EXCEPT !.op = "resourceError"])
    /\ UNCHANGED <<reports, dirty>>

OnRecordCustomEvent ==
    /\ CanStep
    /\ Done(recordCustomEvent(World, "custom"),
            [Idle EXCEPT !.op = "recordCustomEvent"])
    /\ UNCHANGED <<reports, dirty>>

OnRecordNetworkError ==
    /\ CanStep
    /\ Done(recordNetworkError(World, AppApi, "GET", 500, 1),
            [Idle EXCEPT !.op = "recordNetworkError", !.status = 500])
    /\ UNCHANGED <<reports, dirty>>

OnRecordPerformanceMetric ==
    /\ CanStep
    /\ Done(recordPerformanceMetric(World, "resource", 10),
            [Idle EXCEPT !.op = "recordPerformanceMetric"])
    /\ UNCHANGED <<reports, dirty>>

\* web-vitals reports a metric to the collector's callback.
OnWebVital(name, value) ==
    /\ CanStep
    /\ installed.collectorInitialized
    /\ Done(handleMetric(World, [name |-> name, value |-> value, delta |-> value,
                                 id |-> name, timestamp |-> clock]),
            [Idle EXCEPT !.op = "handleMetric", !.type = name])
    /\ UNCHANGED <<reports, dirty>>

\* visibilitychange with document.visibilityState = 'hidden'.
OnHidden ==
    /\ CanStep
    /\ installed.visibilityListeners > 0
    /\ Done(onHidden(World), [Idle EXCEPT !.op = "hidden"])
    /\ UNCHANGED <<reports, dirty>>

\* beforeunload.
OnBeforeUnload ==
    /\ CanStep
    /\ installed.unloadListeners > 0
    /\ Done(onBeforeUnload(World), [Idle EXCEPT !.op = "beforeunload"])
    /\ UNCHANGED <<reports, dirty>>

\* ----- the dashboard's reads

\* The dashboard (or a test) calls webVitalsCollector.getRating(name, value).
OnGetRating(name, value) ==
    /\ CanStep
    /\ Done(Ret(World, getRating(name, value)),
            [Idle EXCEPT !.op = "getRating", !.type = name, !.value = value,
                         !.ret = getRating(name, value)])
    /\ UNCHANGED <<reports, dirty>>

OnGetMetricsSummary ==
    /\ CanStep
    /\ Done(Ret(World, <<>>),
            [Idle EXCEPT !.op = "getMetricsSummary", !.ret = getMetricsSummary(World)])
    /\ UNCHANGED <<reports, dirty>>

OnGetErrorStats ==
    /\ CanStep
    /\ Done(Ret(World, <<>>),
            [Idle EXCEPT !.op = "getErrorStats", !.ret = getErrorStats(World).ret])
    /\ UNCHANGED <<reports, dirty>>

\* A call that hands a list to its caller.
Handed(r, op) ==
    /\ Step(r, [Idle EXCEPT !.op = op])
    /\ snap' = r.ret
    /\ UNCHANGED <<seenSid, reports, dirty>>

OnGetErrorQueue ==
    /\ CanStep
    /\ Handed(getErrorQueue(World), "getErrorQueue")

OnGetMetrics ==
    /\ CanStep
    /\ Handed(getMetrics(World), "getMetrics")

OnClearMetrics ==
    /\ CanStep
    /\ Done(Ret(clearMetrics(World), <<>>), [Idle EXCEPT !.op = "clearMetrics"])
    /\ UNCHANGED <<reports, dirty>>

\* list.length = 0 by the caller that holds the list: an array the agent
\* refers to is emptied for the agent as well.
emptied(w, s) ==
    IF ~held(s, w) THEN w
    ELSE IF s.kind = "errors" THEN [w EXCEPT !.errorQueue = <<>>]
    ELSE [w EXCEPT !.metrics = <<>>]

\* The caller of getErrorQueue / getMetrics empties the list it was handed.
OnCallerEmptiesList ==
    /\ CanStep
    /\ snap.kind # "none"
    /\ snap.items # <<>>
    /\ Step(Ret(emptied(World, snap), <<>>), [Idle EXCEPT !.op = "callerEmptiesList"])
    /\ snap' = [snap EXCEPT !.items = <<>>]
    /\ UNCHANGED <<seenSid, reports, dirty>>

\* The system clock is set back (clock synchronisation, the user): Date.now()
\* is the wall clock and not monotonic.
ClockSetBack(d) ==
    /\ CanStep
    /\ Done(Ret([World EXCEPT !.clock = @ - d], <<>>), [Idle EXCEPT !.op = "clockSetBack"])
    /\ UNCHANGED <<reports, dirty>>

\* A test or another module constructs a GlobalErrorHandler of its own.
OnNewHandler ==
    /\ CanStep
    /\ Done(Ret(newHandler(World), <<>>), [Idle EXCEPT !.op = "newHandler"])
    /\ UNCHANGED <<reports, dirty>>

\* ----- the auth store

\* The application calls setAuthenticated(true) after a login, or
\* setAuthenticated(false).
OnSetAuthenticated(authenticated) ==
    /\ CanStep
    /\ Done(Ret(setAuthenticated(World, authenticated), <<>>),
            [Idle EXCEPT !.op = "setAuthenticated"])
    /\ UNCHANGED <<reports, dirty>>

\* The application calls setSessionTimeout(timeout); 0 is null.
OnSetSessionTimeout(timeout) ==
    /\ CanStep
    /\ Done(Ret(setSessionTimeout(World, timeout), <<>>),
            [Idle EXCEPT !.op = "setSessionTimeout", !.value = timeout])
    /\ UNCHANGED <<reports, dirty>>

\* The j-th pending timer is due and its callback runs.
OnSessionTimer(j) ==
    /\ CanStep
    /\ j \in 1..Len(auth.timers)
    /\ clock >= auth.timers[j].due
    /\ Done(Ret(sessionTimerFires([World EXCEPT !.auth.timers = without(@, j)]),
                <<>>),
            [Idle EXCEPT !.op = "sessionTimer", !.value = auth.timers[j].due])
    /\ UNCHANGED <<reports, dirty>>

\* The application calls resetAuth() (logout).
OnResetAuth ==
    /\ CanStep
    /\ Done(Ret(resetAuth(World), <<>>), [Idle EXCEPT !.op = "resetAuth"])
    /\ UNCHANGED <<reports, dirty>>

\* ----- the HTTP client

NoRetries == [retries |-> 0, hasRetries |-> FALSE]
Retries(k) == [retries |-> k, hasRetries |-> TRUE]

\* A step of the request http[i] (i = Len(http) + 1: a new request).
Requested(r, i, op, status) ==
    /\ Done(r, [Idle EXCEPT !.op = op, !.count = i, !.status = status])
    /\ dirty' = (dirty \/ accepted' # accepted)
    /\ UNCHANGED reports

\* The application calls httpClient with a config.
OnHttpRequest(cfg) ==
    /\ CanStep
    /\ Len(http) < MaxRequests
    /\ Requested(Bind(client(World, newRequest(cfg.retries, cfg.hasRetries)),
                      LAMBDA sent :
                          Ret([sent.w EXCEPT !.http = Append(@, sent.ret)], <<>>)),
                 Len(http) + 1, "httpRequest", 0)

\* The pending attempt of the i-th request fails: with a response of `status`,
\* or (status = Rejected) without response, the error's message being m.
OnHttpFails(i, status, m) ==
    /\ CanStep
    /\ i \in 1..Len(http)
    /\ http[i].phase = "sent"
    /\ status # Rejected => m = <<"Network", "Error">>
    /\ Requested(stored(attemptFailed(World, http[i], status, Err(m)), i),
                 i, "httpFails", status)

\* The pending attempt of the i-th request gets a response of status 200.
OnHttpSucceeds(i) ==
    /\ CanStep
    /\ i \in 1..Len(http)
    /\ http[i].phase = "sent"
    /\ Requested(stored(attemptSucceeded(World, http[i], 200), i),
                 i, "httpSucceeds", 200)

\* The wait of the i-th request is over: the retry handler calls
\* client(config).
OnRetryTimer(i) ==
    /\ CanStep
    /\ i \in 1..Len(http)
    /\ http[i].phase = "waiting"
    /\ Requested(stored(client(World, http[i]), i), i, "httpRetry", 0)

\* -------------------------------------------------------- specifications

ContextTypes == {"", "test"}
StorageModes == {<<"ok", "ok">>, <<"ok", "full">>, <<"ok", "denied">>,
                 <<"denied", "denied">>}
Hour == 60 * 60 * 1000

NextErr ==
    \/ \E m \in Messages, t \in ContextTypes : OnReportError(m, t)
    \/ \E e \in ErrorEvents : OnGlobalError(e[1], e[2])
    \/ \E m \in Reasons : OnUnhandledRejection(m)
    \/ OnCleanupErrorQueue
    \/ OnClearErrorQueue
    \/ \E md \in StorageModes : StorageChanges(md[1], md[2])
    \/ \E k \in Keys : SessionCorrupted(k)

\* The error pipeline: a freshly loaded page under any configuration, or a page
\* without endpoint that has already reported 49 or 99 errors.
Prefills == {49, 99}
InitErr ==
    \/ InitAfter(0, MaxErrOps)
    \/ \E n \in Prefills : InitAfter(n, MaxErrOps) /\ config.apiEndpoint = NoEndpoint
SpecErr == InitErr /\ [][NextErr]_vars

\* The session tracker: a freshly loaded page, localStorage empty or holding
\* the session of an earlier tab last active `age` ms before the page load.
OldAges == {Hour, 24 * Hour, 25 * Hour}
withOld(w, age) ==
    [w EXCEPT !.ls[SessionKey(OldId)] =
        stringify([sessionId |-> OldId, startTime |-> 0 - age,
                   lastActivity |-> 0 - age, pageViews |-> 1, errors |-> 0])]

InitSess ==
    \E cfg \in Configs :
        /\ cfg.environment = "development"
        /\ \/ InitWith(Loaded(cfg), <<>>, MaxSessOps)
           \/ \E age \in OldAges : InitWith(withOld(Loaded(cfg), age), <<>>, MaxSessOps)

NextSess ==
    \/ OnGetSessionId
    \/ OnGetUserSession
    \/ \E t \in {"pageView", "error"} : OnUpdateSessionStats(t)
    \/ OnSweep
    \/ \E d \in {1, Hour, 24 * Hour} : Tick(d)
    \/ TabStorageCleared
    \/ OnSetUser
    \/ OnInitMonitoring
    \/ OnServiceInit
    \/ \E md \in StorageModes : StorageChanges(md[1], md[2])
    \/ \E k \in Keys : SessionCorrupted(k)

SpecSess == InitSess /\ [][NextSess]_vars

\* The network: the wrapped fetch and the delivery functions.
InitNet == InitAfter(0, MaxNetOps)

NextNet ==
    \/ OnHostFetch
    \/ \E i \in 1..MaxNetOps, st \in Statuses : OnFetchSettles(i, st)
    \/ OnXhrSend
    \/ \E i \in 1..MaxNetOps, st \in {200, 404, Rejected} : OnXhrLoadend(i, st)
    \/ OnResourceError
    \/ OnGlobalError(NormalError, AppJs)
    \/ OnUnhandledRejection(NormalError)
    \/ OnRecordCustomEvent
    \/ OnRecordNetworkError
    \/ OnRecordPerformanceMetric
    \/ \E v \in {Milli(2000), Milli(5000)} : OnWebVital("LCP", v)
    \/ OnHidden
    \/ OnBeforeUnload
    \/ OnReportError(NormalError, "")
    \/ \E d \in {1, 5001} : Tick(d)
    \/ \E md \in StorageModes : StorageChanges(md[1], md[2])

SpecNet == InitNet /\ [][NextNet]_vars

\* The rating function on the values around its thresholds.
RatingValues(name) ==
    UNION {{t - 1, t, t + 1} : t \in {performanceThresholds[name].good,
                                      performanceThresholds[name].needsImprovement}}

InitRate == InitAfter(0, MaxRateOps)

NextRate ==
    \E name \in MetricNames : \E value \in RatingValues(name) : OnGetRating(name, value)

SpecRate == InitRate /\ [][NextRate]_vars

\* The dashboard: snapshots, statistics and summaries next to the captures
\* that change what they read.
InitDash ==
    \/ \E cfg \in Configs :
          /\ cfg.apiEndpoint = NoEndpoint
          /\ InitWith(Loaded(cfg), <<>>, MaxDashOps)
    \/ \E cfg \in Configs, n \in {12, 51} :
          /\ cfg.apiEndpoint = NoEndpoint
          /\ InitWith(AfterReports(cfg, n), [i \in 1..n |-> i - n], MaxDashOps)

NextDash ==
    \/ \E v \in {Milli(2000), Milli(3000)} : OnWebVital("LCP", v)
    \/ OnGetMetricsSummary
    \/ OnGetMetrics
    \/ OnClearMetrics
    \/ OnGetErrorQueue
    \/ OnGetErrorStats
    \/ OnCallerEmptiesList
    \/ OnReportError(NormalError, "test")
    \/ OnUnhandledRejection(NormalError)
    \/ OnCleanupErrorQueue
    \/ OnClearErrorQueue
    \/ Tick(1)
    \/ ClockSetBack(1000)

SpecDash == InitDash /\ [][NextDash]_vars

\* The capture channels: the callbacks of the listeners and the calls of the
\* host application, each run to completion (none of them awaits), in any
\* order, next to reads of the session.
InitChan == InitAfter(0, MaxChanOps)

NextChan ==
    \/ OnReportError(NormalError, "")
    \/ OnGlobalError(NormalError, AppJs)
    \/ OnUnhandledRejection(NormalError)
    \/ OnUpdateSessionStats("error")
    \/ OnGetUserSession
    \/ OnGetSessionId
    \/ Tick(1)
    \/ \E md \in StorageModes : StorageChanges(md[1], md[2])

SpecChan == InitChan /\ [][NextChan]_vars

\* The HTTP client: requests with their own retries, failing and succeeding
\* attempts, on a page with an endpoint whose storage works or is blocked.
HttpConfigs == {NoRetries} \cup {Retries(k) : k \in 0..3}
HttpStatuses == {Rejected, 404, 500}
HttpMessages == {<<"Network", "Error">>, NormalError}

InitHttp ==
    \E cfg \in Configs, md \in {<<"ok", "ok">>, <<"denied", "denied">>} :
        /\ cfg.environment = "development"
        /\ cfg.apiEndpoint # NoEndpoint
        /\ InitWith([Loaded(cfg) EXCEPT !.ssMode = md[1], !.lsMode = md[2]],
                    <<>>, MaxHttpOps)

NextHttp ==
    \/ \E cfg \in HttpConfigs : OnHttpRequest(cfg)
    \/ \E i \in 1..MaxRequests, st \in HttpStatuses, m \in HttpMessages :
          OnHttpFails(i, st, m)
    \/ \E i \in 1..MaxRequests : OnHttpSucceeds(i)
    \/ \E i \in 1..MaxRequests : OnRetryTimer(i)

SpecHttp == InitHttp /\ [][NextHttp]_vars

\* A tab that is left alone for hours between its events, while its timers
\* keep firing.
InitIdle == InitAfter(0, MaxIdleOps)

NextIdle ==
    \/ OnGetUserSession
    \/ \E t \in {"pageView", "error"} : OnUpdateSessionStats(t)
    \/ OnSweep
    \/ OnBeforeUnload
    \/ \E d \in {Hour, 24 * Hour, 25 * Hour} : Tick(d)

SpecIdle == InitIdle /\ [][NextIdle]_vars

\* A page on which further GlobalErrorHandler objects are constructed while
\* the application calls fetch.
InitInst == InitAfter(0, MaxInstOps)

NextInst ==
    \/ OnNewHandler
    \/ OnHostFetch
    \/ \E i \in 1..MaxInstOps, st \in {200, 500, Rejected} : OnFetchSettles(i, st)

SpecInst == InitInst /\ [][NextInst]_vars

\* The auth store: logins, logouts, session timeouts and their timers.
InitAuth == InitAfter(0, MaxAuthOps)

NextAuth ==
    \/ \E a \in BOOLEAN : OnSetAuthenticated(a)
    \/ \E t \in {0, 1000, 2000} : OnSetSessionTimeout(t)
    \/ \E j \in 1..MaxAuthOps : OnSessionTimer(j)
    \/ OnResetAuth
    \/ Tick(1000)

SpecAuth == InitAuth /\ [][NextAuth]_vars

\* The whole agent.
Init == InitErr \/ InitSess \/ InitNet \/ InitRate \/ InitDash \/ InitChan
            \/ InitHttp \/ InitIdle \/ InitInst \/ InitAuth
Next == NextErr \/ NextSess \/ NextNet \/ NextRate \/ NextDash \/ NextChan
            \/ NextHttp \/ NextIdle \/ NextInst \/ NextAuth
Spec == Init /\ [][Next]_vars


\* ------------------------------------------------------------ properties

\* The variables of the agent and of the browser, without the history kept
\* for the properties.
agent == <<ss, ssMode, ls, lsMode, nextId, clock, config, errorQueue, metrics,
           posts, inflight, netErrors, events, installed, refs, http, auth>>

\* The ids of the records in the queue, oldest first.
queued == [i \in 1..Len(errorQueue) |-> errorQueue[i].eid]

\* C1: after N reportError calls with errors the filter keeps, and no
\* compaction or clear in between, the queue holds min(N, 100) records: the
\* last 100 reported errors in the order they were reported.
C1_QueueHoldsLastReports ==
    ~dirty =>
        /\ Len(errorQueue) = IF Len(reports) < 100 THEN Len(reports) ELSE 100
        /\ queued = SubSeq(reports, Len(reports) - Len(errorQueue) + 1, Len(reports))

\* The message matches one of the configured rules for messages.
matchesIgnoreRule(m) ==
    \/ \E pattern \in ignoreMessages : contains(m, pattern.toks)
    \/ m \in ignoreErrors

CaptureOps == {"reportError", "handleGlobalError", "handleUnhandledRejection"}

\* C2: shouldIgnoreError is true of every message that matches a configured
\* ignore pattern ("Script error") and false of "Normal error"; reporting an
\* error with such a message, by reportError or by a global listener, puts no
\* record into the queue, so no record of the queue has such a message.
C2_IgnoredErrorsNeverQueued ==
    /\ [](/\ \A m \in Messages : matchesIgnoreRule(m) => shouldIgnoreError(m, NoUrl)
          /\ shouldIgnoreError(ScriptError, NoUrl)
          /\ ~shouldIgnoreError(NormalError, NoUrl)
          /\ \A i \in 1..Len(errorQueue) : ~matchesIgnoreRule(errorQueue[i].message))
    /\ [][(last'.op \in CaptureOps /\ matchesIgnoreRule(last'.message))
              => (errorQueue' = errorQueue /\ accepted' = accepted)]_vars

\* An uncaught error whose message contains "Script error" was filtered while
\* the queue holds other records.
C2_Witness ==
    /\ last.op = "handleGlobalError"
    /\ last.message = UncaughtScriptError
    /\ last.ignored
    /\ errorQueue # <<>>

\* C3: a wrapped fetch whose original resolves with a status >= 400 resolves
\* with that response and produces exactly one NetworkErrorRecord of that
\* status; when the original rejects, the wrapped call rejects with the
\* original's error.
C3_FetchWrapperTransparent ==
    last.op = "fetchSettles" =>
        /\ last.status >= 400 =>
              /\ last.ret = <<"resolved", "response">>
              /\ last.count = 1
              /\ netErrors[Len(netErrors)].status = last.status
              /\ netErrors[Len(netErrors)].url = last.url
        /\ last.status = Rejected => last.ret = <<"rejected", "error">>

\* C4: with a sample rate of 0 and an endpoint, nothing is ever posted to the
\* endpoint, while the queue holds every captured error (up to the cap).
C4_NoPostAtSampleRateZero ==
    (config.sampleRate = 0 /\ config.apiEndpoint # NoEndpoint) =>
        /\ posts = <<>>
        /\ Len(errorQueue) = IF Len(accepted) < 100 THEN Len(accepted) ELSE 100

AgentOps == {"reportError", "recordNetworkError", "recordPerformanceMetric",
             "handleMetric", "recordCustomEvent", "hidden", "beforeunload"}

\* C5: without an endpoint no operation of the agent calls fetch or sendBeacon
\* for the agent, and none of them throws.
C5_NoEndpointNoNetworkNoThrow ==
    config.apiEndpoint = NoEndpoint =>
        /\ posts = <<>>
        /\ \A i \in 1..Len(inflight) : inflight[i].origin = "host"
        /\ last.op \in AgentOps => ~last.threw

\* C6: reportError returns normally whatever the error and whatever the state
\* of sessionStorage and localStorage.
C6_ReportErrorNeverThrows ==
    last.op = "reportError" => ~last.threw

\* C7: once the monitoring service is initialized, a further initialization
\* call (initMonitoring() or init()) installs nothing and changes no state.
C7_InitIdempotent ==
    [][last'.op \in {"initMonitoring", "init"} => UNCHANGED <<agent, accepted>>]_vars

\* init() ran again on the initialized service, whose listeners and timers are
\* those of the first initialization.
C7_Witness ==
    /\ last.op = "init"
    /\ installed = Loaded(config).installed
    /\ installed.serviceInitialized
    /\ installed.timers = 3

\* C8: a call of getSessionId or getUserSession that returns, returns the id
\* the previous such call returned unless sessionStorage was cleared in
\* between; the first getUserSession on an empty tab persists a session with
\* pageViews = 1 and errors = 0 under the id it returns.
C8_SessionIdStable ==
    [][(last'.op \in {"getSessionId", "getUserSession"} /\ ~last'.threw) =>
          /\ seenSid # NoId => last'.sid = seenSid
          /\ ss # NoId => last'.sid = ss
          /\ (last'.op = "getUserSession" /\ ss = NoId) =>
                /\ ls'[SessionKey(last'.sid)].kind = "json"
                /\ ls'[SessionKey(last'.sid)].sessionId = last'.sid
                /\ ls'[SessionKey(last'.sid)].pageViews = 1
                /\ ls'[SessionKey(last'.sid)].errors = 0]_vars

\* getUserSession returned, after an earlier call, the id of the tab's session,
\* which was created with one page view and no error.
C8_Witness ==
    /\ last.op = "getUserSession"
    /\ ~last.threw
    /\ nOps >= 2
    /\ last.sid = seenSid
    /\ last.sid = ss
    /\ ls[SessionKey(ss)].pageViews = 1
    /\ ls[SessionKey(ss)].errors = 0
    /\ ls[SessionKey(ss)].lastActivity > ls[SessionKey(ss)].startTime

\* C9: an updateSessionStats(type) that returns, on a tab whose session is
\* persisted, adds exactly 1 to errors (type 'error') or to pageViews (type
\* 'pageView') of the persisted session and leaves the other counter,
\* sessionId and startTime as they were; no other item changes.
C9_UpdateCountsOne ==
    [][(/\ last'.op = "updateSessionStats"
        /\ ~last'.threw
        /\ ss # NoId
        /\ ls[SessionKey(ss)].kind = "json") =>
          /\ ss' = ss
          /\ ls'[SessionKey(ss)].kind = "json"
          /\ ls'[SessionKey(ss)].sessionId = ls[SessionKey(ss)].sessionId
          /\ ls'[SessionKey(ss)].startTime = ls[SessionKey(ss)].startTime
          /\ ls'[SessionKey(ss)].lastActivity = clock
          /\ ls'[SessionKey(ss)].errors =
                ls[SessionKey(ss)].errors + (IF last'.type = "error" THEN 1 ELSE 0)
          /\ ls'[SessionKey(ss)].pageViews =
                ls[SessionKey(ss)].pageViews + (IF last'.type = "pageView" THEN 1 ELSE 0)
          /\ \A k \in Keys \ {SessionKey(ss)} : ls'[k] = ls[k]]_vars

\* The second updateSessionStats('error') of a tab: two errors, one page view.
C9_Witness ==
    /\ last.op = "updateSessionStats"
    /\ last.type = "error"
    /\ ~last.threw
    /\ ss # NoId
    /\ ls[SessionKey(ss)].errors = 2
    /\ ls[SessionKey(ss)].pageViews = 1

\* The item is a session last active more than 24 h before `now`.
olderThanMaxAge(item, now) ==
    item.kind = "json" /\ now - item.lastActivity > 24 * Hour

RatingTable ==
    [LCP |-> <<2500000, 4000000>>, FID |-> <<100000, 300000>>,
     CLS |-> <<100, 250>>, FCP |-> <<1800000, 3000000>>,
     TTFB |-> <<800000, 1800000>>]

\* C11: getRating(name, v) is good iff v <= the good threshold of name,
\* needs-improvement iff good < v <= the needs-improvement threshold, poor
\* otherwise, for LCP 2500/4000, FID 100/300, CLS 0.1/0.25, FCP 1800/3000,
\* TTFB 800/1800: a value on a threshold is in the better bucket.
C11_RatingByThresholds ==
    last.op = "getRating" =>
        /\ last.type \in DOMAIN RatingTable
        /\ last.ret = IF last.value <= RatingTable[last.type][1] THEN "good"
                      ELSE IF last.value <= RatingTable[last.type][2]
                           THEN "needs-improvement"
                      ELSE "poor"

\* getRating('LCP', 2500.001) gave needs-improvement.
C11_Witness ==
    /\ last.op = "getRating"
    /\ last.type = "LCP"
    /\ last.value = 2500001
    /\ last.ret = "needs-improvement"

\* The records of the metric `name` received so far.
recordsOf(name) == {i \in 1..Len(metrics) : metrics[i].name = name}

\* C12: getMetricsSummary gives, for every metric name with a record, the
\* value and rating of a record of that name with the greatest timestamp, and
\* no entry for a name without record.
C12_SummaryIsLatestByTimestamp ==
    last.op = "getMetricsSummary" =>
        \A name \in MetricNames :
            IF recordsOf(name) = {} THEN ~last.ret[name].present
            ELSE \E i \in recordsOf(name) :
                    /\ \A j \in recordsOf(name) :
                          metrics[j].timestamp <= metrics[i].timestamp
                    /\ last.ret[name].present
                    /\ last.ret[name].value = metrics[i].value
                    /\ last.ret[name].rating = getRating(name, metrics[i].value)

\* C13: a record that reportError pushes onto the queue is the reported error
\* with context type manual_report, whatever type the caller supplied, and it
\* is pushed only when the filter of the listeners keeps the error.
C13_ManualReportType ==
    [][last'.op = "reportError" =>
          \/ errorQueue' = errorQueue /\ accepted' = accepted
          \/ /\ ~shouldIgnoreError(last'.message, NoUrl)
             /\ accepted' = Append(accepted, nOps + 1)
             /\ errorQueue' # <<>>
             /\ errorQueue'[Len(errorQueue')] =
                    [eid |-> nOps + 1, message |-> last'.message,
                     type |-> "manual_report"]]_vars

\* reportError(error, { type: 'test' }) queued the error as manual_report.
C13_Witness ==
    /\ last.op = "reportError"
    /\ last.type = "test"
    /\ errorQueue # <<>>
    /\ errorQueue[Len(errorQueue)].eid = nOps
    /\ errorQueue[Len(errorQueue)].type = "manual_report"

RECURSIVE sumOver(_, _)
sumOver(f, keys) ==
    IF keys = {} THEN 0
    ELSE LET k == CHOOSE x \in keys : TRUE IN f[k] + sumOver(f, keys \ {k})

\* C14: getErrorStats gives total = the length of the queue, byType with every
\* queued record counted once under its context type (the counts sum to total),
\* and recent = the last min(10, total) records of the queue in queue order.
C14_ErrorStats ==
    last.op = "getErrorStats" =>
        /\ last.ret.total = Len(errorQueue)
        /\ DOMAIN last.ret.byType = {errorQueue[i].type : i \in 1..Len(errorQueue)}
        /\ \A t \in DOMAIN last.ret.byType :
              last.ret.byType[t] =
                  Cardinality({i \in 1..Len(errorQueue) : errorQueue[i].type = t})
        /\ sumOver(last.ret.byType, DOMAIN last.ret.byType) = last.ret.total
        /\ Len(last.ret.recent) = IF Len(errorQueue) < 10 THEN Len(errorQueue) ELSE 10
        /\ \A i \in 1..Len(last.ret.recent) :
              last.ret.recent[i] =
                  errorQueue[Len(errorQueue) - Len(last.ret.recent) + i]

\* Statistics of a queue of more than ten records of two types.
C14_Witness ==
    /\ last.op = "getErrorStats"
    /\ last.ret.total > 10
    /\ Len(last.ret.recent) = 10
    /\ Cardinality(DOMAIN last.ret.byType) = 2

\* C15: a list handed out by getErrorQueue or getMetrics stays as it is while
\* the agent captures, compacts and clears, and the caller's emptying it
\* leaves the agent's queue and metrics as they are.
C15_SnapshotsAreCopies ==
    [][/\ (/\ snap.kind # "none"
           /\ last'.op \notin {"getErrorQueue", "getMetrics", "callerEmptiesList"})
          => snap' = snap
       /\ last'.op = "callerEmptiesList"
          => (errorQueue' = errorQueue /\ metrics' = metrics)]_vars

\* The caller emptied the list it got from getErrorQueue; the queue still
\* holds its records.
C15_Witness ==
    /\ last.op = "callerEmptiesList"
    /\ snap.kind = "errors"
    /\ snap.items = <<>>
    /\ errorQueue # <<>>


\* C16: with an endpoint, every error the capture pipeline accepted was
\* posted to {endpoint}/errors, the body being the error's record.
C16_AcceptedErrorsPosted ==
    config.apiEndpoint # NoEndpoint =>
        Cardinality({j \in 1..Len(posts) :
                        /\ posts[j].url = <<config.apiEndpoint, "/errors">>
                        /\ posts[j].body.kind = "error"})
            >= Len(accepted)

RecordOps == {"recordCustomEvent", "recordNetworkError", "recordPerformanceMetric"}

\* C17: when a POST of the agent rejects, nothing is thrown to anyone and the
\* rejected record is not posted again: the step posts nothing, or a single
\* NetworkErrorRecord of status 0 about the rejected call (the fetch wrapper
\* treats the agent's calls as it treats the application's).  The recording
\* functions that issued the POST returned normally.
C17_DeliveryFailureSwallowed ==
    [][/\ (/\ last'.op = "fetchSettles"
           /\ last'.origin = "agent"
           /\ last'.status = Rejected) =>
             /\ ~last'.threw
             /\ \/ posts' = posts
                \/ /\ Len(posts') = Len(posts) + 1
                   /\ SubSeq(posts', 1, Len(posts)) = posts
                   /\ posts'[Len(posts')].url = <<config.apiEndpoint, "/errors">>
                   /\ posts'[Len(posts')].body.kind = "networkError"
                   /\ posts'[Len(posts')].body.status = 0
                   /\ posts'[Len(posts')].body.url = last'.url
       /\ (last'.op \in RecordOps /\ Len(posts') > Len(posts)) => ~last'.threw]_vars

\* The POST of a custom event was rejected and the rejection was swallowed.
C17_Witness ==
    /\ last.op = "fetchSettles"
    /\ last.origin = "agent"
    /\ last.status = Rejected
    /\ last.body.kind = "event"
    /\ ~last.threw
    /\ Len(posts) = 2

\* errors of the tab's persisted session (0 without one).
errorCount ==
    IF ss # NoId /\ ls[SessionKey(ss)].kind = "json"
    THEN ls[SessionKey(ss)].errors ELSE 0

\* C18: every failure a listener accepts (an uncaught error or an unhandled
\* rejection the filter keeps, a network call that ends with a status >= 400
\* or without response, a resource that fails to load) adds 1 to the session's
\* errors and pushes one record onto the error queue.
C18_AllListenersProcessError ==
    [][(\/ last'.op \in {"handleGlobalError", "handleUnhandledRejection"}
           /\ ~last'.ignored
        \/ /\ last'.op \in {"fetchSettles", "xhrLoadend"}
           /\ last'.origin = "host"
           /\ (last'.status >= 400 \/ last'.status = Rejected)
        \/ last'.op = "resourceError") =>
          /\ Len(accepted') = Len(accepted) + 1
          /\ errorCount' = errorCount + 1]_vars

\* C19: a wrapped call, fetch or XMLHttpRequest, that ends with a status >= 400
\* or without response produces one NetworkErrorRecord for its URL, with the
\* status of the response, or 0 when there was none.
C19_NetworkErrorRecorded ==
    (/\ last.op \in {"fetchSettles", "xhrLoadend"}
     /\ (last.status >= 400 \/ last.status = Rejected)) =>
        /\ last.count = 1
        /\ netErrors[Len(netErrors)].status = last.status
        /\ netErrors[Len(netErrors)].url = last.url

\* C20: a wrapped call, fetch or XMLHttpRequest, that took more than 5000 ms
\* produces a slow_request event, whatever its outcome.
C20_SlowRequestReported ==
    [][(last'.op \in {"fetchSettles", "xhrLoadend"} /\ last'.value > 5000) =>
          \E j \in (Len(events) + 1)..Len(events') :
              events'[j].name = "slow_request"]_vars


\* The item is unreadable or a session last active more than 24 h ago: what a
\* session sweep removes.
sweepable(item, now) == item.kind = "text" \/ olderThanMaxAge(item, now)

\* C21: with an endpoint, when the page becomes hidden and when it is about to
\* unload, the current metrics summary is sent by sendBeacon to
\* {endpoint}/web-vitals-summary; the unload also sweeps the sessions.
C21_SummaryFlushedOnHideAndUnload ==
    [][/\ (/\ last'.op \in {"hidden", "beforeunload"}
           /\ config.apiEndpoint # NoEndpoint) =>
             \E j \in (Len(posts) + 1)..Len(posts') :
                 /\ posts'[j].transport = "beacon"
                 /\ posts'[j].url = <<config.apiEndpoint, "/web-vitals-summary">>
                 /\ posts'[j].body.kind = "summary"
                 /\ posts'[j].body.summary = getMetricsSummary(World)
       /\ (last'.op = "beforeunload" /\ lsMode = "ok") =>
             \A k \in Keys :
                 (startsWithSession(k) /\ sweepable(ls[k], clock)) => ls'[k] = Null]_vars


\* C22: a compaction tick leaves the queue holding its most recent
\* min(length, 50) records in their order; a queue of 50 or fewer records is
\* left untouched (the same array with the same records).
C22_CompactionKeepsLastFifty ==
    [][last'.op = "cleanupErrorQueue" =>
          /\ Len(errorQueue') = IF Len(errorQueue) < 50 THEN Len(errorQueue) ELSE 50
          /\ \A i \in 1..Len(errorQueue') :
                errorQueue'[i] = errorQueue[Len(errorQueue) - Len(errorQueue') + i]
          /\ Len(errorQueue) <= 50 => (errorQueue' = errorQueue /\ refs' = refs)
          /\ accepted' = accepted]_vars

\* A compaction cut a queue of 100 records down to the 50 reported last.
C22_Witness ==
    /\ last.op = "cleanupErrorQueue"
    /\ Len(accepted) = 100
    /\ Len(errorQueue) = 50
    /\ queued = SubSeq(accepted, 51, 100)


\* C23: whatever the interleaving of captures, manual reports, compaction
\* ticks and clearErrorQueue, the queue is a contiguous suffix of the sequence
\* of the errors the pipeline accepted (enqueued), in the order they were
\* observed, and never holds more than 100 records.
C23_QueueIsSuffixOfAccepted ==
    /\ Len(errorQueue) <= 100
    /\ Len(errorQueue) <= Len(accepted)
    /\ queued = SubSeq(accepted, Len(accepted) - Len(errorQueue) + 1, Len(accepted))

\* A manual report and then an uncaught error arrived at a queue of 99: the
\* queue is full and has lost its oldest record.
C23_Witness ==
    /\ last.op = "handleGlobalError"
    /\ Len(accepted) = 101
    /\ Len(errorQueue) = 100
    /\ queued[100] = nOps
    /\ queued[1] = accepted[2]


\* The step is a call that records an error in the session and returned: a
\* capture the filter kept, or updateSessionStats('error').
recordedError(l) ==
    /\ ~l.threw
    /\ \/ l.op \in CaptureOps /\ ~l.ignored
       \/ l.op = "updateSessionStats" /\ l.type = "error"

\* C24: no increment is lost: every call that records an error, from whatever
\* channel and in whatever order with the others and with reads of the
\* session, leaves the persisted error count exactly 1 higher, and a read of
\* the session leaves it as it is; K such calls leave it K higher.
C24_NoLostIncrement ==
    [][/\ recordedError(last') => errorCount' = errorCount + 1
       /\ last'.op \in {"getSessionId", "getUserSession"}
             => errorCount' = errorCount]_vars

\* Three errors from three channels, with a read of the session among them:
\* the session counts three.
C24_Witness ==
    /\ nOps = 4
    /\ errorCount = 3
    /\ seenSid = ss
    /\ ss # NoId
    /\ Len(errorQueue) = 3
    /\ Cardinality(typesOf(errorQueue)) = 3


\* The keys under which a readable session is persisted.
persisted(store) == {k \in Keys : startsWithSession(k) /\ store[k].kind = "json"}

\* C25: every persisted session has pageViews >= 1, errors >= 0 and
\* lastActivity >= startTime, and while the clock does not go back no step
\* (read of the session, update, sweep) lowers the lastActivity of a session
\* that stays persisted.
C25_SessionFieldsWellFormed ==
    /\ [](\A k \in persisted(ls) :
              /\ ls[k].pageViews >= 1
              /\ ls[k].errors >= 0
              /\ ls[k].lastActivity >= ls[k].startTime)
    /\ [][clock' >= clock =>
              \A k \in persisted(ls) \cap persisted(ls') :
                  ls'[k].lastActivity >= ls[k].lastActivity]_vars

\* The tab's session after a page view, some time and an error: two page
\* views, one error, last active after it started.
C25_Witness ==
    /\ last.op = "updateSessionStats"
    /\ ss # NoId
    /\ SessionKey(ss) \in persisted(ls)
    /\ ls[SessionKey(ss)].pageViews = 2
    /\ ls[SessionKey(ss)].errors = 1
    /\ ls[SessionKey(ss)].lastActivity > ls[SessionKey(ss)].startTime
    /\ ls[SessionKey(ss)].lastActivity = clock


\* C26: the retry handler ends after a bounded number of attempts: a request
\* whose config.retries is k >= 0 is sent at most k + 1 times, each re-send
\* taking one from retries, which never becomes negative; and when an attempt
\* fails with nothing left to retry, the request is rejected to its caller.
C26_RetriesBounded ==
    /\ [](\A i \in 1..Len(http) :
              /\ http[i].attempts <= http[i].initial + 1
              /\ http[i].retries >= 0
              /\ Len(http[i].delays) = http[i].initial - http[i].retries
              /\ http[i].attempts <= Len(http[i].delays) + 1)
    /\ [][(last'.op = "httpFails" /\ http[last'.count].retries = 0) =>
              /\ http'[last'.count].phase = "rejected"
              /\ http'[last'.count].attempts = http[last'.count].attempts]_vars

\* A request with retries = 2 failed with retryable errors every time: it was
\* sent three times and is rejected.
C26_Witness ==
    /\ last.op = "httpFails"
    /\ http # <<>>
    /\ http[1].initial = 2
    /\ http[1].attempts = 3
    /\ http[1].retries = 0
    /\ http[1].phase = "rejected"
    /\ http[1].error = "axios"


\* A request with retries left, for asking the retry handler about a status.
Probe == [newRequest(1, TRUE) EXCEPT !.attempts = 1, !.phase = "sent"]

\* C27: the retry handler retries only a failure without response or with a
\* status in {408, 429, 500, 502, 503, 504}; a failure with any other status
\* (400, 401, 403, 404, ...) is rejected at once, retries being left as it
\* is; and each wait is twice the wait before.
C27_RetryOnlyRetryable ==
    /\ [](\A st \in 400..599 :
              retryRejected(Probe, st, "axios").phase = "waiting"
                  <=> st \in {408, 429, 500, 502, 503, 504})
    /\ [](\A i \in 1..Len(http) : \A j \in 2..Len(http[i].delays) :
              http[i].delays[j] = 2 * http[i].delays[j - 1])
    /\ [][last'.op = "httpFails" =>
              /\ http'[last'.count].phase = "waiting" =>
                    /\ last'.status \in {Rejected, 408, 429, 500, 502, 503, 504}
                    /\ http'[last'.count].retries = http[last'.count].retries - 1
              /\ last'.status \notin {Rejected, 408, 429, 500, 502, 503, 504} =>
                    /\ http'[last'.count].phase = "rejected"
                    /\ http'[last'.count].retries = http[last'.count].retries
                    /\ http'[last'.count].delays = http[last'.count].delays]_vars

\* One request was retried twice, after 2 s and after 4 s; another, with
\* retries = 3, got a 404 and was rejected after its first attempt.
C27_Witness ==
    /\ last.op = "httpFails"
    /\ last.status = 404
    /\ Len(http) = 2
    /\ http[1].delays = <<2000, 4000>>
    /\ http[2].phase = "rejected"
    /\ http[2].initial = 3
    /\ http[2].retries = 3
    /\ http[2].attempts = 1


\* C28 as stated: while the tab keeps its session id, no step (read, update,
\* sweep, time passing) discards the tab's persisted session or lowers its
\* errors or pageViews.
C28_CountersNeverDecrease ==
    [][(ss # NoId /\ ss' = ss /\ SessionKey(ss) \in persisted(ls)) =>
          /\ SessionKey(ss) \in persisted(ls')
          /\ ls'[SessionKey(ss)].errors >= ls[SessionKey(ss)].errors
          /\ ls'[SessionKey(ss)].pageViews >= ls[SessionKey(ss)].pageViews]_vars

\* C28: while the tab keeps its session id, its persisted session keeps its
\* errors and pageViews (no step lowers them) until a sweep, hourly or at
\* unload, finds it idle for more than 24 h: that sweep removes the tab's own
\* session, and the next read creates it again under the same id with one
\* page view and no error.
C28_CountersKeptUntilIdleSweep ==
    [][/\ (ss # NoId /\ ss' = ss /\ SessionKey(ss) \in persisted(ls)) =>
             IF /\ last'.op \in {"cleanupExpiredSessions", "beforeunload"}
                /\ clock - ls[SessionKey(ss)].lastActivity > 24 * Hour
             THEN ls'[SessionKey(ss)] = Null
             ELSE /\ SessionKey(ss) \in persisted(ls')
                  /\ ls'[SessionKey(ss)].errors >= ls[SessionKey(ss)].errors
                  /\ ls'[SessionKey(ss)].pageViews >= ls[SessionKey(ss)].pageViews
       /\ (/\ ss # NoId
           /\ ls[SessionKey(ss)] = Null
           /\ last'.op = "getUserSession") =>
             /\ ss' = ss
             /\ ls'[SessionKey(ss)].pageViews = 1
             /\ ls'[SessionKey(ss)].errors = 0
             /\ ls'[SessionKey(ss)].startTime = clock]_vars

\* The hourly sweep removed the session of the tab it runs in, which had been
\* idle for 25 h.
C28_Witness ==
    /\ last.op = "cleanupExpiredSessions"
    /\ last.count = 1
    /\ ss # NoId
    /\ ls[SessionKey(ss)] = Null
    /\ clock >= 25 * Hour


\* C29: however many GlobalErrorHandler objects are constructed, fetch and
\* XMLHttpRequest are wrapped at most once and the listeners of the handler
\* (error, resource error, unhandledrejection) installed at most once, so a
\* failing fetch of the application produces exactly one NetworkErrorRecord.
C29_HandlersInstalledOnce ==
    /\ installed.fetchWrappers <= 1
    /\ installed.xhrWrappers <= 1
    /\ installed.errorListeners <= 2
    /\ installed.rejectionListeners <= 1
    /\ (/\ last.op = "fetchSettles"
        /\ last.origin = "host"
        /\ (last.status >= 400 \/ last.status = Rejected)) => last.count = 1


\* C30: the timer of the session timeout logs an authenticated user out only
\* when the timeout set last has elapsed: a timeout is set (not null) and the
\* time since it was set is at least that timeout.  A timer of an earlier
\* setSessionTimeout, superseded by null, by a longer timeout or by a logout
\* and a new login, logs nobody out.
C30_OnlyLatestTimeoutLogsOut ==
    [][(/\ last'.op = "sessionTimer"
        /\ auth.isAuthenticated
        /\ ~auth'.isAuthenticated) =>
          /\ auth.sessionTimeout # 0
          /\ clock >= auth.setAt + auth.sessionTimeout]_vars

====
